---- MODULE Spec2Model ----
(***************************************************************************)
(* A model of the Grit translator: the tokenizer (src/src/lexer), the      *)
(* recursive-descent / precedence-climbing parser (src/src/parser) and the *)
(* code generator (src/src/codegen).                                       *)
(*                                                                         *)
(* Text is a sequence of one-character strings.  Identifier names and      *)
(* string-literal contents are sequences of characters as well, so that    *)
(* generated code can be tokenized again by the same tokenizer.            *)
(***************************************************************************)
EXTENDS Integers, Sequences, FiniteSets, TLC

VARIABLES
    input,      \* Tokenizer.input: the characters being scanned
    position,   \* Tokenizer.position (0-based index into input)
    line,       \* Tokenizer.line
    column,     \* Tokenizer.column
    tokens,     \* the Vec<Token> that tokenize() is building / has returned
    lexState,   \* "scanning", "done" (Eof pushed) or "panic" (unwound)
    lastTok,    \* the value returned by the latest next_token call
    started,    \* (position, line, column) when the latest next_token was entered
    panicInfo,  \* the character, line and column named by the panic message
    eofCalls,   \* number of next_token calls made after tokenize() returned
    parsed,     \* the ParseResult<Program> of Parser::new(tokens).parse()
    expr,       \* the Expr handed to CodeGenerator::generate_expression
    generated,  \* the String returned by generate_expression
    reparsed,   \* the ParseResult of tokenizing and parsing `generated`
    stage,      \* how far the pipeline of lib.rs::run has come
    prog,       \* the Program handed to CodeGenerator::generate_program
    code,       \* the String returned by generate_program(&program)
    again       \* the String returned by a second generate_program(&program)

vars == <<input, position, line, column, tokens, lexState, lastTok,
          started, panicInfo, eofCalls, parsed, expr, generated, reparsed, stage,
          prog, code, again>>

progVars == <<prog, code, again>>

lexVars == <<input, position, line, column, tokens, lexState, lastTok,
             started, panicInfo, eofCalls>>

(***************************************************************************)
(* Bounds                                                                  *)
(***************************************************************************)
MaxLen == 4          \* longest text scanned exhaustively by the tokenizer
MaxEofCalls == 2     \* next_token calls made after Eof was returned
MaxSrcLen == 5       \* longest source text run exhaustively through the pipeline
MaxDepth == 2        \* nesting depth of the Expr values handed to the generator
MaxToks == 4         \* longest token vector, Eof apart, parsed exhaustively
MaxStmts == 3        \* most statements of a Program handed to generate_program
MaxBody == 3         \* most statements of a generated function or method body
MaxFormat == 3       \* longest format string handed to print
MaxStr == 4          \* most characters after the opening quote of a string literal
MaxValues == 2       \* most arguments of print after the first

(***************************************************************************)
(* Characters                                                              *)
(***************************************************************************)
NoChar == ""         \* Option<char>::None

Digits == <<"0", "1", "2", "3", "4", "5", "6", "7", "8", "9">>

DigitSet == {Digits[i] : i \in 1..10}

LowerSet == {"a", "b", "c", "d", "e", "f", "g", "h", "i", "j", "k", "l", "m",
             "n", "o", "p", "q", "r", "s", "t", "u", "v", "w", "x", "y", "z"}

UpperSet == {"A", "B", "C", "D", "E", "F", "G", "H", "I", "J", "K", "L", "M",
             "N", "O", "P", "Q", "R", "S", "T", "U", "V", "W", "X", "Y", "Z"}

is_ascii_digit(ch) == ch \in DigitSet

is_alphabetic(ch) == ch \in LowerSet \cup UpperSet

is_alphanumeric(ch) == is_alphabetic(ch) \/ is_ascii_digit(ch)

is_uppercase(ch) == ch \in UpperSet

is_whitespace(ch) == ch \in {" ", "\t", "\r", "\n"}

DigitValue(ch) == CHOOSE d \in 0..9 : Digits[d + 1] = ch

(***************************************************************************)
(* Tokens                                                                  *)
(***************************************************************************)
TT(kind) == [kind |-> kind]

TInteger(n) == [kind |-> "Integer", value |-> n]

TString(s) == [kind |-> "String", value |-> s]

TIdentifier(name) == [kind |-> "Identifier", name |-> name]

Token(token_type, l, c) == [token_type |-> token_type, line |-> l, column |-> c]

NoToken == [token_type |-> TT("None"), line |-> 0, column |-> 0]

NoPanic == [ch |-> NoChar, line |-> 0, column |-> 0]

(***************************************************************************)
(* Tokenizer.  A cursor is the mutable part of the Tokenizer struct.       *)
(***************************************************************************)
Cursor(p, l, c) == [position |-> p, line |-> l, column |-> c]

current_char(inp, cur) ==
    IF cur.position < Len(inp) THEN inp[cur.position + 1] ELSE NoChar

\* Fault variant of advance: a line break does not reset the column.
advance_no_reset(inp, cur) ==
    LET ch == inp[cur.position + 1]
    IN  IF ch = "\n"
        THEN Cursor(cur.position + 1, cur.line + 1, cur.column + 1)
        ELSE Cursor(cur.position + 1, cur.line, cur.column + 1)

advance(inp, cur) ==
    LET ch == inp[cur.position + 1]
    IN  IF ch = "\n"
        THEN Cursor(cur.position + 1, cur.line + 1, 1)
        ELSE Cursor(cur.position + 1, cur.line, cur.column + 1)

\* Fault variant of skip_whitespace: leaving the loop counts one more column.
RECURSIVE skip_whitespace_counting(_, _)
skip_whitespace_counting(inp, cur) ==
    LET ch == current_char(inp, cur)
    IN  IF ch # NoChar /\ is_whitespace(ch) /\ ch # "\n"
        THEN skip_whitespace_counting(inp, advance(inp, cur))
        ELSE Cursor(cur.position, cur.line, cur.column + 1)

RECURSIVE skip_whitespace(_, _)
skip_whitespace(inp, cur) ==
    LET ch == current_char(inp, cur)
    IN  IF ch # NoChar /\ is_whitespace(ch) /\ ch # "\n"
        THEN skip_whitespace(inp, advance(inp, cur))
        ELSE cur

\* read_identifier, read_string and read_integer return the text read and
\* the cursor they leave behind.
RECURSIVE read_identifier_from(_, _, _)
read_identifier_from(inp, cur, identifier) ==
    LET ch == current_char(inp, cur)
    IN  IF ch # NoChar /\ (is_alphanumeric(ch) \/ ch = "_")
        THEN read_identifier_from(inp, advance(inp, cur), Append(identifier, ch))
        ELSE [text |-> identifier, cur |-> cur]

read_identifier(inp, cur) == read_identifier_from(inp, cur, <<>>)

RECURSIVE read_string_from(_, _, _)

\* Fault variant of read_string_from: an unknown escape loses its backslash.
read_string_from_plain_escape(inp, cur, string) ==
    LET ch == current_char(inp, cur)
    IN  IF ch = NoChar THEN [text |-> string, cur |-> cur]
        ELSE IF ch = "'" THEN [text |-> string, cur |-> advance(inp, cur)]
        ELSE IF ch = "\\"
        THEN LET c1 == advance(inp, cur)
                 escaped == current_char(inp, c1)
             IN  IF escaped = NoChar
                 THEN read_string_from(inp, c1, string)
                 ELSE read_string_from(inp, advance(inp, c1),
                         CASE escaped = "n" -> Append(string, "\n")
                           [] escaped = "t" -> Append(string, "\t")
                           [] escaped = "r" -> Append(string, "\r")
                           [] OTHER -> Append(string, escaped))
        ELSE read_string_from(inp, advance(inp, cur), Append(string, ch))

\* Fault variant of read_string_from: at the end of the input without a
\* closing quote the text read is discarded, and escapes are not decoded.
read_string_from_strict(inp, cur, string) ==
    LET ch == current_char(inp, cur)
    IN  IF ch = NoChar THEN [text |-> <<>>, cur |-> cur]
        ELSE IF ch = "'" THEN [text |-> string, cur |-> advance(inp, cur)]
        ELSE IF ch = "\\" /\ current_char(inp, advance(inp, cur)) # NoChar
        THEN read_string_from(inp, advance(inp, advance(inp, cur)),
                              string \o <<"\\", current_char(inp, advance(inp, cur))>>)
        ELSE read_string_from(inp, advance(inp, cur), Append(string, ch))

read_string_from(inp, cur, string) ==
    LET ch == current_char(inp, cur)
    IN  IF ch = NoChar THEN [text |-> string, cur |-> cur]
        ELSE IF ch = "'" THEN [text |-> string, cur |-> advance(inp, cur)]
        ELSE IF ch = "\\"
        THEN LET c1 == advance(inp, cur)
                 escaped == current_char(inp, c1)
             IN  IF escaped = NoChar
                 THEN read_string_from(inp, c1, string)
                 ELSE read_string_from(inp, advance(inp, c1),
                         CASE escaped = "n" -> Append(string, "\n")
                           [] escaped = "t" -> Append(string, "\t")
                           [] escaped = "r" -> Append(string, "\r")
                           [] escaped = "\\" -> Append(string, "\\")
                           [] escaped = "'" -> Append(string, "'")
                           [] OTHER -> string \o <<"\\", escaped>>)
        ELSE read_string_from(inp, advance(inp, cur), Append(string, ch))

read_string(inp, cur) == read_string_from(inp, advance(inp, cur), <<>>)

\* The digit runs of this model stay far below i64::MAX, so the
\* unwrap_or(0) of number.parse() never takes its default.
RECURSIVE read_integer_from(_, _, _)
read_integer_from(inp, cur, number) ==
    LET ch == current_char(inp, cur)
    IN  IF ch # NoChar /\ is_ascii_digit(ch)
        THEN read_integer_from(inp, advance(inp, cur), number * 10 + DigitValue(ch))
        ELSE [value |-> number, cur |-> cur]

read_integer(inp, cur) == read_integer_from(inp, cur, 0)

keyword_or_identifier(identifier) ==
    CASE identifier = <<"f", "n">> -> TT("Fn")
      [] identifier = <<"i", "f">> -> TT("If")
      [] identifier = <<"e", "l", "i", "f">> -> TT("Elif")
      [] identifier = <<"e", "l", "s", "e">> -> TT("Else")
      [] identifier = <<"w", "h", "i", "l", "e">> -> TT("While")
      [] OTHER -> TIdentifier(identifier)

\* The result of one next_token call: either a token and the cursor left
\* behind, or a panic naming a character and the captured line and column.
Returned(tok, cur) ==
    [panic |-> FALSE, token |-> tok, cur |-> cur, info |-> NoPanic]

\* Fault variant of Panicked: the message names the line and column of the
\* tokenizer after the character was consumed.
Panicked_after_advance(ch, l, c, cur) ==
    [panic |-> TRUE, token |-> NoToken, cur |-> cur,
     info |-> [ch |-> ch, line |-> cur.line, column |-> cur.column]]

Panicked(ch, l, c, cur) ==
    [panic |-> TRUE, token |-> NoToken, cur |-> cur,
     info |-> [ch |-> ch, line |-> l, column |-> c]]

\* `ch` followed by '=' gives the two-character token, else the plain one.
with_equals(inp, c1, two, one) ==
    IF current_char(inp, c1) = "="
    THEN [tt |-> TT(two), cur |-> advance(inp, c1)]
    ELSE [tt |-> TT(one), cur |-> c1]

\* next_token after skip_whitespace: the token that starts at cur.
scan_token(inp, cur) ==
    LET l == cur.line
        c == cur.column
        ch == current_char(inp, cur)
    IN  IF ch = NoChar THEN Returned(Token(TT("Eof"), l, c), cur)
        ELSE IF is_ascii_digit(ch)
        THEN LET r == read_integer(inp, cur)
             IN  Returned(Token(TInteger(r.value), l, c), r.cur)
        ELSE IF is_alphabetic(ch) \/ ch = "_"
        THEN LET r == read_identifier(inp, cur)
             IN  Returned(Token(keyword_or_identifier(r.text), l, c), r.cur)
        ELSE IF ch = "'"
        THEN LET r == read_string(inp, cur)
             IN  Returned(Token(TString(r.text), l, c), r.cur)
        ELSE LET c1 == advance(inp, cur)
                 Single(kind) == Returned(Token(TT(kind), l, c), c1)
                 Double(two, one) ==
                     LET r == with_equals(inp, c1, two, one)
                     IN  Returned(Token(r.tt, l, c), r.cur)
             IN  CASE ch = "+" -> Single("Plus")
                   [] ch = "-" -> Single("Minus")
                   [] ch = "*" -> Single("Multiply")
                   [] ch = "/" -> Single("Divide")
                   [] ch = "=" -> Double("EqualEqual", "Equals")
                   [] ch = "!" ->
                        IF current_char(inp, c1) = "="
                        THEN Returned(Token(TT("NotEqual"), l, c), advance(inp, c1))
                        ELSE Panicked(ch, l, c, c1)
                   [] ch = "<" -> Double("LessThanOrEqual", "LessThan")
                   [] ch = ">" -> Double("GreaterThanOrEqual", "GreaterThan")
                   [] ch = "(" -> Single("LeftParen")
                   [] ch = ")" -> Single("RightParen")
                   [] ch = "{" -> Single("LeftBrace")
                   [] ch = "}" -> Single("RightBrace")
                   [] ch = "," -> Single("Comma")
                   [] ch = "\n" -> Single("Newline")
                   [] OTHER -> Panicked(ch, l, c, c1)

next_token(inp, cur0) == scan_token(inp, skip_whitespace(inp, cur0))

\* Fault variant of is_eof: a line break ends the loop as well.
is_eof_or_newline(token) == token.token_type.kind \in {"Eof", "Newline"}

\* The test that ends the loop of tokenize().
is_eof(token) == token.token_type = TT("Eof")

\* tokenize(): next_token until Eof has been pushed; a panic unwinds and
\* no vector is returned.
RECURSIVE tokenize_from(_, _, _)

\* What the loop of tokenize() does with the result r of one next_token call.
tokenize_push(inp, toks, r) ==
    IF r.panic THEN [panic |-> TRUE, tokens |-> <<>>, info |-> r.info, cur |-> r.cur]
    ELSE IF is_eof(r.token)
    THEN [panic |-> FALSE, tokens |-> Append(toks, r.token), info |-> NoPanic, cur |-> r.cur]
    ELSE tokenize_from(inp, r.cur, Append(toks, r.token))

tokenize_from(inp, cur, toks) == tokenize_push(inp, toks, next_token(inp, cur))

tokenize(inp) == tokenize_from(inp, Cursor(0, 1, 1), <<>>)

(***************************************************************************)
(* AST (src/src/parser/ast.rs)                                             *)
(***************************************************************************)
Integer(v) == [kind |-> "Integer", value |-> v]

StringLit(s) == [kind |-> "String", value |-> s]

Identifier(name) == [kind |-> "Identifier", name |-> name]

BinaryOp(l, op, r) == [kind |-> "BinaryOp", left |-> l, op |-> op, right |-> r]

Grouped(e) == [kind |-> "Grouped", expr |-> e]

FunctionCall(name, args) == [kind |-> "FunctionCall", name |-> name, args |-> args]

FieldAccess(object, field) == [kind |-> "FieldAccess", object |-> object, field |-> field]

MethodCall(object, method, args) ==
    [kind |-> "MethodCall", object |-> object, method |-> method, args |-> args]

FunctionDef(name, params, body) ==
    [kind |-> "FunctionDef", name |-> name, params |-> params, body |-> body]

ClassDef(name) == [kind |-> "ClassDef", name |-> name]

MethodDef(class_name, method_name, params, body) ==
    [kind |-> "MethodDef", class_name |-> class_name, method_name |-> method_name,
     params |-> params, body |-> body]

Assignment(name, value) == [kind |-> "Assignment", name |-> name, value |-> value]

\* else_branch is an Option: some = FALSE is None.
IfStmt(condition, then_branch, elif_branches, else_branch) ==
    [kind |-> "If", condition |-> condition, then_branch |-> then_branch,
     elif_branches |-> elif_branches, else_branch |-> else_branch]

WhileStmt(condition, body) == [kind |-> "While", condition |-> condition, body |-> body]

ExpressionStmt(e) == [kind |-> "Expression", expr |-> e]

Program(statements) == [statements |-> statements]

Comparisons == {"EqualEqual", "NotEqual", "LessThan", "LessThanOrEqual",
                "GreaterThan", "GreaterThanOrEqual"}

\* Fault variant of precedence: * and / share the tier of + and -.
precedence_two_tiers(op) == IF op \in Comparisons THEN 0 ELSE 1

precedence(op) ==
    CASE op \in Comparisons -> 0
      [] op \in {"Add", "Subtract"} -> 1
      [] op \in {"Multiply", "Divide"} -> 2

(***************************************************************************)
(* Parser (src/src/parser/parse.rs).  Every parsing operator takes the     *)
(* token vector and the cursor and returns a ParseResult together with the *)
(* cursor it leaves behind.                                                *)
(***************************************************************************)
UnexpectedToken(expected, found) ==
    [kind |-> "UnexpectedToken", expected |-> expected, found |-> found]

UnexpectedEof(expected) == [kind |-> "UnexpectedEof", expected |-> expected]

InvalidExpression(token) == [kind |-> "InvalidExpression", token |-> token]

NoError == [kind |-> "None"]

NoValue == [kind |-> "None"]

Ok(val, pos) == [ok |-> TRUE, val |-> val, err |-> NoError, pos |-> pos]

Err(err, pos) == [ok |-> FALSE, val |-> NoValue, err |-> err, pos |-> pos]

current_token(toks, pos) == IF pos < Len(toks) THEN toks[pos + 1] ELSE NoToken

\* Fault variant of Parser_advance: the cursor moves on unconditionally.
Parser_advance_unchecked(toks, pos) == pos + 1

Parser_advance(toks, pos) == IF pos < Len(toks) THEN pos + 1 ELSE pos

kind_at(toks, pos) == current_token(toks, pos).token_type.kind

\* Fault variant of is_at_end: running off the vector is not the end.
is_at_end_eof_only(toks, pos) ==
    current_token(toks, pos) # NoToken /\ kind_at(toks, pos) = "Eof"

is_at_end(toks, pos) ==
    current_token(toks, pos) = NoToken \/ kind_at(toks, pos) = "Eof"

RECURSIVE skip_newlines(_, _)
skip_newlines(toks, pos) ==
    IF current_token(toks, pos) # NoToken /\ kind_at(toks, pos) = "Newline"
    THEN skip_newlines(toks, Parser_advance(toks, pos))
    ELSE pos

\* "Consume optional newline": one Newline token, when it is the current one.
skip_one_newline(toks, pos) ==
    IF current_token(toks, pos) # NoToken /\ kind_at(toks, pos) = "Newline"
    THEN Parser_advance(toks, pos)
    ELSE pos

NoOperator == "None"

token_to_operator(token_type) ==
    CASE token_type.kind = "Plus" -> "Add"
      [] token_type.kind = "Minus" -> "Subtract"
      [] token_type.kind = "Multiply" -> "Multiply"
      [] token_type.kind = "Divide" -> "Divide"
      [] token_type.kind = "EqualEqual" -> "EqualEqual"
      [] token_type.kind = "NotEqual" -> "NotEqual"
      [] token_type.kind = "LessThan" -> "LessThan"
      [] token_type.kind = "LessThanOrEqual" -> "LessThanOrEqual"
      [] token_type.kind = "GreaterThan" -> "GreaterThan"
      [] token_type.kind = "GreaterThanOrEqual" -> "GreaterThanOrEqual"
      [] OTHER -> NoOperator

SelfName == <<"s", "e", "l", "f">>

\* `let r = call?;` followed by the rest of the function: body is defined on
\* the one ParseResult r of the call, where it returns an Err as it is and
\* goes on with the value and cursor of an Ok.
With(body) == body[CHOOSE r \in DOMAIN body : TRUE]

RECURSIVE parse_primary(_, _), parse_expression(_, _, _),
          parse_expression_loop(_, _, _, _), parse_arguments(_, _),
          parse_arguments_loop(_, _, _), parse_statement(_, _),
          parse_block_loop(_, _, _), parse_elif_branches(_, _, _)

\* Fault variant of expect_right_paren: the Eof token counts as end of input.
expect_right_paren_eof(toks, pos) ==
    LET token == current_token(toks, pos)
    IN  IF token = NoToken \/ token.token_type.kind = "Eof"
        THEN Err(UnexpectedEof("')'"), pos)
        ELSE IF token.token_type.kind # "RightParen"
        THEN Err(UnexpectedToken("')'", token), pos)
        ELSE Ok(NoValue, Parser_advance(toks, pos))

\* The closing ')' of a group or of an argument list: consume it or fail.
expect_right_paren(toks, pos) ==
    LET token == current_token(toks, pos)
    IN  IF token = NoToken THEN Err(UnexpectedEof("')'"), pos)
        ELSE IF token.token_type.kind # "RightParen"
        THEN Err(UnexpectedToken("')'", token), pos)
        ELSE Ok(NoValue, Parser_advance(toks, pos))

\* The token after an argument: ',' continues the list, ')' ends it.
parse_arguments_next(toks, pos, all) ==
    LET token == current_token(toks, pos)
    IN  IF token = NoToken THEN Err(UnexpectedEof("')'"), pos)
        ELSE IF token.token_type.kind = "Comma"
        THEN parse_arguments_loop(toks, Parser_advance(toks, pos), all)
        ELSE IF token.token_type.kind = "RightParen" THEN Ok(all, pos)
        ELSE Err(UnexpectedToken("',' or ')'", token), pos)

\* The argument loop of a call, entered with the cursor on the first
\* argument; it leaves the cursor on the ')' that ends the list.
parse_arguments_loop(toks, pos, args) ==
    With([r \in {parse_expression(toks, pos, 0)} |->
        IF ~r.ok THEN r
        ELSE parse_arguments_next(toks, r.pos, Append(args, r.val))])

\* The argument list of a function or method call, entered after the '('
\* was consumed; it consumes the closing ')'.
parse_arguments(toks, pos) ==
    LET first == current_token(toks, pos)
    IN  With([a \in {IF first # NoToken /\ first.token_type.kind # "RightParen"
                         THEN parse_arguments_loop(toks, pos, <<>>)
                         ELSE Ok(<<>>, pos)} |->
            IF ~a.ok THEN a
            ELSE With([c \in {expect_right_paren(toks, a.pos)} |->
                IF ~c.ok THEN c
                ELSE Ok(a.val, c.pos)])])

\* Fault variant of parse_primary: a plain identifier is read but the cursor
\* stays on it.
parse_primary_peek(toks, pos) ==
    LET token == current_token(toks, pos)
        tt == token.token_type
        p1 == Parser_advance(toks, pos)
    IN  IF token = NoToken THEN Err(UnexpectedEof("expression"), pos)
        ELSE CASE tt.kind = "Integer" -> Ok(Integer(tt.value), p1)
               [] tt.kind = "String" -> Ok(StringLit(tt.value), p1)
               [] tt.kind = "Self_" -> Ok(Identifier(SelfName), p1)
               [] tt.kind = "Identifier" ->
                    IF current_token(toks, p1) # NoToken /\ kind_at(toks, p1) = "LeftParen"
                    THEN With([a \in {parse_arguments(toks, Parser_advance(toks, p1))} |->
                             IF ~a.ok THEN a
                             ELSE Ok(FunctionCall(tt.name, a.val), a.pos)])
                    ELSE Ok(Identifier(tt.name), pos)
               [] tt.kind = "LeftParen" ->
                    With([r \in {parse_expression(toks, p1, 0)} |->
                        IF ~r.ok THEN r
                        ELSE With([c \in {expect_right_paren(toks, r.pos)} |->
                            IF ~c.ok THEN c
                            ELSE Ok(Grouped(r.val), c.pos)])])
               [] OTHER -> Err(InvalidExpression(token), pos)

parse_primary(toks, pos) ==
    LET token == current_token(toks, pos)
        tt == token.token_type
        p1 == Parser_advance(toks, pos)
    IN  IF token = NoToken THEN Err(UnexpectedEof("expression"), pos)
        ELSE CASE tt.kind = "Integer" -> Ok(Integer(tt.value), p1)
               [] tt.kind = "String" -> Ok(StringLit(tt.value), p1)
               [] tt.kind = "Self_" -> Ok(Identifier(SelfName), p1)
               [] tt.kind = "Identifier" ->
                    IF current_token(toks, p1) # NoToken /\ kind_at(toks, p1) = "LeftParen"
                    THEN With([a \in {parse_arguments(toks, Parser_advance(toks, p1))} |->
                             IF ~a.ok THEN a
                             ELSE Ok(FunctionCall(tt.name, a.val), a.pos)])
                    ELSE Ok(Identifier(tt.name), p1)
               [] tt.kind = "LeftParen" ->
                    With([r \in {parse_expression(toks, p1, 0)} |->
                        IF ~r.ok THEN r
                        ELSE With([c \in {expect_right_paren(toks, r.pos)} |->
                            IF ~c.ok THEN c
                            ELSE Ok(Grouped(r.val), c.pos)])])
               [] OTHER -> Err(InvalidExpression(token), pos)

\* Fault variant of right_min_precedence: the operator's own precedence.
right_min_precedence_same(op) == precedence(op)

\* The precedence to hand to the recursive call for the right operand.
right_min_precedence(op) == precedence(op) + 1

\* Fault variant of parse_method_call: `.name` without parentheses gives a
\* FieldAccess.
parse_method_call_field(toks, left, pos, min_precedence) ==
    LET field == current_token(toks, pos)
        p2 == Parser_advance(toks, pos)
    IN  IF field = NoToken
        THEN Err(UnexpectedEof("field or method name"), pos)
        ELSE IF field.token_type.kind # "Identifier"
        THEN Err(UnexpectedToken("field or method name", field), pos)
        ELSE IF current_token(toks, p2) # NoToken /\ kind_at(toks, p2) = "LeftParen"
        THEN With([a \in {parse_arguments(toks, Parser_advance(toks, p2))} |->
                 IF ~a.ok THEN a
                 ELSE parse_expression_loop(toks,
                          MethodCall(left, field.token_type.name, a.val),
                          a.pos, min_precedence)])
        ELSE parse_expression_loop(toks,
                 FieldAccess(left, field.token_type.name),
                 p2, min_precedence)

\* The Dot branch of the loop: `.name` or `.name(args)` on the expression
\* parsed so far; pos is the cursor after the '.'.
parse_method_call(toks, left, pos, min_precedence) ==
    LET field == current_token(toks, pos)
        p2 == Parser_advance(toks, pos)
    IN  IF field = NoToken
        THEN Err(UnexpectedEof("field or method name"), pos)
        ELSE IF field.token_type.kind # "Identifier"
        THEN Err(UnexpectedToken("field or method name", field), pos)
        ELSE IF current_token(toks, p2) # NoToken /\ kind_at(toks, p2) = "LeftParen"
        THEN With([a \in {parse_arguments(toks, Parser_advance(toks, p2))} |->
                 IF ~a.ok THEN a
                 ELSE parse_expression_loop(toks,
                                MethodCall(left, field.token_type.name, a.val),
                                a.pos, min_precedence)])
        ELSE parse_expression_loop(toks,
                 MethodCall(left, field.token_type.name, <<>>),
                 p2, min_precedence)

\* The binary-operator branch of the loop; pos is the cursor on the operator.
parse_binary_op(toks, left, pos, min_precedence, op) ==
    IF op = NoOperator THEN Ok(left, pos)
    ELSE IF precedence(op) < min_precedence THEN Ok(left, pos)
    ELSE With([r \in {parse_expression(toks, Parser_advance(toks, pos),
                                  right_min_precedence(op))} |->
             IF ~r.ok THEN r
             ELSE parse_expression_loop(toks, BinaryOp(left, op, r.val),
                                              r.pos, min_precedence)])

\* One iteration of the `while let Some(token)` loop of parse_expression.
parse_expression_loop(toks, left, pos, min_precedence) ==
    LET token == current_token(toks, pos)
        tt == token.token_type
    IN  IF token = NoToken THEN Ok(left, pos)
        ELSE IF is_at_end(toks, pos) THEN Ok(left, pos)
        ELSE IF tt.kind \in {"Newline", "Comma", "RightParen"} THEN Ok(left, pos)
        ELSE IF tt.kind = "Dot"
        THEN parse_method_call(toks, left, Parser_advance(toks, pos), min_precedence)
        ELSE parse_binary_op(toks, left, pos, min_precedence, token_to_operator(tt))

parse_expression(toks, pos, min_precedence) ==
    With([r \in {parse_primary(toks, pos)} |->
        IF ~r.ok THEN r
        ELSE parse_expression_loop(toks, r.val, r.pos, min_precedence)])

parse_expression_only(toks) == parse_expression(toks, 0, 0)

(***************************************************************************)
(* Statements                                                              *)
(***************************************************************************)
\* "Expect '{'": consume it or fail.
expect_left_brace(toks, pos) ==
    LET token == current_token(toks, pos)
    IN  IF token = NoToken THEN Err(UnexpectedEof("'{'"), pos)
        ELSE IF token.token_type.kind # "LeftBrace"
        THEN Err(UnexpectedToken("'{'", token), pos)
        ELSE Ok(NoValue, Parser_advance(toks, pos))

\* The statement loop of a brace-delimited body; it consumes the '}'.
parse_block_loop(toks, pos, body) ==
    LET token == current_token(toks, pos)
    IN  IF token = NoToken THEN Err(UnexpectedEof("'}'"), pos)
        ELSE IF token.token_type.kind = "RightBrace"
        THEN Ok(body, Parser_advance(toks, pos))
        ELSE With([r \in {parse_statement(toks, pos)} |->
                 IF ~r.ok THEN r
                 ELSE parse_block_loop(toks, skip_newlines(toks, r.pos),
                                             Append(body, r.val))])

\* '{', newlines, statements, '}'.
parse_braced_block(toks, pos) ==
    With([b \in {expect_left_brace(toks, pos)} |->
        IF ~b.ok THEN b
        ELSE parse_block_loop(toks, skip_newlines(toks, b.pos), <<>>)])

parse_function_body(toks, pos) ==
    With([r \in {parse_braced_block(toks, pos)} |->
        IF ~r.ok THEN r
        ELSE Ok(r.val, skip_one_newline(toks, r.pos))])

RECURSIVE parse_params_loop(_, _, _)
parse_params_loop(toks, pos, params) ==
    LET p == skip_newlines(toks, pos)
        token == current_token(toks, p)
    IN  IF token = NoToken THEN Err(UnexpectedEof("')' or parameter name"), p)
        ELSE IF token.token_type.kind = "RightParen"
        THEN Ok(params, Parser_advance(toks, p))
        ELSE IF token.token_type.kind = "Identifier"
        THEN LET p1 == skip_newlines(toks, Parser_advance(toks, p))
                 next == current_token(toks, p1)
                 all == Append(params, token.token_type.name)
             IN  IF next = NoToken THEN Err(UnexpectedEof("',' or ')'"), p1)
                 ELSE IF next.token_type.kind = "Comma"
                 THEN parse_params_loop(toks, Parser_advance(toks, p1), all)
                 ELSE IF next.token_type.kind = "RightParen"
                 THEN Ok(all, Parser_advance(toks, p1))
                 ELSE Err(UnexpectedToken("',' or ')'", next), p1)
        ELSE Err(UnexpectedToken("parameter name", token), p)

\* The body that follows a parameter list; the pair (params, body) is
\* returned as a record.
parse_body_after_params(toks, pos, params) ==
    With([b \in {parse_function_body(toks, skip_newlines(toks, pos))} |->
        IF ~b.ok THEN b
        ELSE Ok([params |-> params, body |-> b.val], b.pos)])

parse_function_params_and_body(toks, pos) ==
    LET token == current_token(toks, pos)
    IN  IF token # NoToken /\ token.token_type.kind # "LeftParen"
        THEN parse_body_after_params(toks, pos, <<>>)
        ELSE IF token = NoToken THEN Err(UnexpectedEof("'('"), pos)
        ELSE With([ps \in {parse_params_loop(toks, Parser_advance(toks, pos), <<>>)} |->
                 IF ~ps.ok THEN ps
                 ELSE parse_body_after_params(toks, ps.pos, ps.val)])

\* "Parse a name": the identifier under the cursor, or an error naming
\* what was expected.
expect_identifier(toks, pos, expected) ==
    LET token == current_token(toks, pos)
    IN  IF token = NoToken THEN Err(UnexpectedEof(expected), pos)
        ELSE IF token.token_type.kind # "Identifier"
        THEN Err(UnexpectedToken(expected, token), pos)
        ELSE Ok(token.token_type.name, Parser_advance(toks, pos))

parse_class_def(toks, pos) ==
    With([n \in {expect_identifier(toks, Parser_advance(toks, pos), "class name")} |->
        IF ~n.ok THEN n
        ELSE Ok(ClassDef(n.val), skip_one_newline(toks, n.pos))])

\* The method name, parameters and body after `fn Class >`.
parse_method_def(toks, pos, class_name) ==
    With([m \in {expect_identifier(toks, pos, "method name")} |->
        IF ~m.ok THEN m
        ELSE With([pb \in {parse_function_params_and_body(toks, m.pos)} |->
            IF ~pb.ok THEN pb
            ELSE Ok(MethodDef(class_name, m.val, pb.val.params,
                                     pb.val.body), pb.pos)])])

\* The parameters and body after `fn name`.
parse_function_def(toks, pos, name) ==
    With([pb \in {parse_function_params_and_body(toks, pos)} |->
        IF ~pb.ok THEN pb
        ELSE Ok(FunctionDef(name, pb.val.params, pb.val.body), pb.pos)])

parse_function_or_method_def(toks, pos) ==
    With([first \in {expect_identifier(toks, Parser_advance(toks, pos),
                              "function or class name")} |->
        IF ~first.ok THEN first
        ELSE IF current_token(toks, first.pos) # NoToken
               /\ kind_at(toks, first.pos) = "GreaterThan"
            THEN parse_method_def(toks, Parser_advance(toks, first.pos), first.val)
            ELSE parse_function_def(toks, first.pos, first.val)])

\* A condition followed, after newlines, by a braced block.
parse_condition_and_block(toks, pos) ==
    With([c \in {parse_expression(toks, pos, 0)} |->
        IF ~c.ok THEN c
        ELSE With([b \in {parse_braced_block(toks, skip_newlines(toks, c.pos))} |->
            IF ~b.ok THEN b
            ELSE Ok([condition |-> c.val, body |-> b.val], b.pos)])])

parse_elif_branches(toks, pos, branches) ==
    IF current_token(toks, pos) # NoToken /\ kind_at(toks, pos) = "Elif"
    THEN With([r \in {parse_condition_and_block(toks, Parser_advance(toks, pos))} |->
             IF ~r.ok THEN r
             ELSE parse_elif_branches(toks, skip_newlines(toks, r.pos),
                            Append(branches, <<r.val.condition, r.val.body>>))])
    ELSE Ok(branches, pos)

NoBranch == [some |-> FALSE, body |-> <<>>]

SomeBranch(body) == [some |-> TRUE, body |-> body]

parse_else_branch(toks, pos) ==
    IF current_token(toks, pos) # NoToken /\ kind_at(toks, pos) = "Else"
    THEN With([b \in {parse_braced_block(toks,
                     skip_newlines(toks, Parser_advance(toks, pos)))} |->
             IF ~b.ok THEN b
             ELSE Ok(SomeBranch(b.val), b.pos)])
    ELSE Ok(NoBranch, pos)

parse_if_statement(toks, pos) ==
    With([t \in {parse_condition_and_block(toks, Parser_advance(toks, pos))} |->
        IF ~t.ok THEN t
        ELSE With([elifs \in {parse_elif_branches(toks, skip_newlines(toks, t.pos), <<>>)} |->
            IF ~elifs.ok THEN elifs
            ELSE With([e \in {parse_else_branch(toks, elifs.pos)} |->
                IF ~e.ok THEN e
                ELSE Ok(IfStmt(t.val.condition, t.val.body, elifs.val, e.val),
                              skip_one_newline(toks, e.pos))])])])

parse_while_statement(toks, pos) ==
    With([r \in {parse_condition_and_block(toks, Parser_advance(toks, pos))} |->
        IF ~r.ok THEN r
        ELSE Ok(WhileStmt(r.val.condition, r.val.body),
                      skip_one_newline(toks, r.pos))])

\* tokens.get(pos + k) has the kind wanted.
kind_is(toks, pos, k, kind) ==
    pos + k < Len(toks) /\ toks[pos + k + 1].token_type.kind = kind

\* Fault variant of is_assignment: `==` after the identifier counts as well.
is_assignment_any_equals(toks, pos) ==
    /\ kind_is(toks, pos, 0, "Identifier")
    /\ (kind_is(toks, pos, 1, "Equals") \/ kind_is(toks, pos, 1, "EqualEqual"))

is_assignment(toks, pos) ==
    kind_is(toks, pos, 0, "Identifier") /\ kind_is(toks, pos, 1, "Equals")

is_self_assignment(toks, pos) ==
    /\ kind_is(toks, pos, 0, "Self_")
    /\ kind_is(toks, pos, 1, "Dot")
    /\ kind_is(toks, pos, 2, "Identifier")
    /\ kind_is(toks, pos, 3, "Equals")

\* value = parse_expression(0), then the optional newline.
parse_assigned_value(toks, pos, name) ==
    With([v \in {parse_expression(toks, pos, 0)} |->
        IF ~v.ok THEN v
        ELSE Ok(Assignment(name, v.val), skip_one_newline(toks, v.pos))])

\* An expression standing as a statement, then the optional newline.
parse_expression_statement(toks, pos) ==
    With([e \in {parse_expression(toks, pos, 0)} |->
        IF ~e.ok THEN e
        ELSE Ok(ExpressionStmt(e.val), skip_one_newline(toks, e.pos))])

parse_statement(toks, pos) ==
    LET token == current_token(toks, pos)
        kind == token.token_type.kind
    IN  IF token # NoToken /\ kind = "Class" THEN parse_class_def(toks, pos)
        ELSE IF token # NoToken /\ kind = "Fn"
        THEN parse_function_or_method_def(toks, pos)
        ELSE IF token # NoToken /\ kind = "If" THEN parse_if_statement(toks, pos)
        ELSE IF token # NoToken /\ kind = "While"
        THEN parse_while_statement(toks, pos)
        ELSE IF is_assignment(toks, pos)
        THEN parse_assigned_value(toks, pos + 2, token.token_type.name)
        ELSE IF is_self_assignment(toks, pos)
        THEN parse_assigned_value(toks, pos + 4,
                 SelfName \o <<".">> \o toks[pos + 3].token_type.name)
        ELSE parse_expression_statement(toks, pos)

RECURSIVE parse_from(_, _, _)
parse_from(toks, pos, statements) ==
    IF is_at_end(toks, pos) THEN Ok(Program(statements), pos)
    ELSE With([r \in {parse_statement(toks, pos)} |->
             IF ~r.ok THEN r
             ELSE parse_from(toks, skip_newlines(toks, r.pos),
                                   Append(statements, r.val))])

parse(toks) == parse_from(toks, skip_newlines(toks, 0), <<>>)

(***************************************************************************)
(* Code generator (src/src/codegen/mod.rs), expressions                    *)
(***************************************************************************)
RECURSIVE NatToString(_)
NatToString(n) ==
    IF n < 10 THEN <<Digits[n + 1]>>
    ELSE Append(NatToString(n \div 10), Digits[(n % 10) + 1])

\* i64::to_string
to_string(n) == IF n < 0 THEN <<"-">> \o NatToString(0 - n) ELSE NatToString(n)

\* Fault variant of op_symbol: Subtract is written as +.
op_symbol_minus_as_plus(op) ==
    CASE op \in {"Add", "Subtract"} -> <<"+">>
      [] op = "Multiply" -> <<"*">>
      [] op = "Divide" -> <<"/">>
      [] op = "EqualEqual" -> <<"=", "=">>
      [] op = "NotEqual" -> <<"!", "=">>
      [] op = "LessThan" -> <<"<">>
      [] op = "LessThanOrEqual" -> <<"<", "=">>
      [] op = "GreaterThan" -> <<">">>
      [] op = "GreaterThanOrEqual" -> <<">", "=">>

op_symbol(op) ==
    CASE op = "Add" -> <<"+">>
      [] op = "Subtract" -> <<"-">>
      [] op = "Multiply" -> <<"*">>
      [] op = "Divide" -> <<"/">>
      [] op = "EqualEqual" -> <<"=", "=">>
      [] op = "NotEqual" -> <<"!", "=">>
      [] op = "LessThan" -> <<"<">>
      [] op = "LessThanOrEqual" -> <<"<", "=">>
      [] op = "GreaterThan" -> <<">">>
      [] op = "GreaterThanOrEqual" -> <<">", "=">>

\* s.replace("\"", "\\\"")
RECURSIVE escape_quotes(_)
escape_quotes(s) ==
    IF s = <<>> THEN <<>>
    ELSE (IF Head(s) = "\"" THEN <<"\\", "\"">> ELSE <<Head(s)>>)
         \o escape_quotes(Tail(s))

\* Vec<String>::join(", ")
RECURSIVE join(_)
join(strs) ==
    IF strs = <<>> THEN <<>>
    ELSE IF Len(strs) = 1 THEN strs[1]
    ELSE strs[1] \o <<",", " ">> \o join(Tail(strs))

NoParent == -1       \* parent_precedence = None

\* Fault variants of needs_parens: the right operand of equal precedence is
\* left bare; every operand of equal precedence is wrapped.
needs_parens_strict(prec, parent, is_right_child) == prec < parent

needs_parens_le(prec, parent, is_right_child) == prec <= parent

\* The closure handed to parent_precedence.is_some_and(..).
needs_parens(prec, parent, is_right_child) ==
    prec < parent \/ (prec = parent /\ is_right_child)

ToIntName == <<"t", "o", "_", "i", "n", "t">>

ToFloatName == <<"t", "o", "_", "f", "l", "o", "a", "t">>

ToStringName == <<"t", "o", "_", "s", "t", "r", "i", "n", "g">>

\* The Expr::Float arm of the generator has no counterpart in ast.rs and
\* no token of the tokenizer, so no Expr of this model takes it.
RECURSIVE generate_expression_with_context(_, _, _)
generate_expression_with_context(ast, parent_precedence, is_right_child) ==
    LET gen(e) == generate_expression_with_context(e, NoParent, FALSE)
        args_str(args) == join([i \in 1..Len(args) |-> gen(args[i])])
    IN  CASE ast.kind = "Integer" -> to_string(ast.value)
          [] ast.kind = "String" -> <<"\"">> \o escape_quotes(ast.value) \o <<"\"">>
          [] ast.kind = "Identifier" -> ast.name
          [] ast.kind = "Grouped" -> <<"(">> \o gen(ast.expr) \o <<")">>
          [] ast.kind = "BinaryOp" ->
               LET prec == precedence(ast.op)
                   left_str == generate_expression_with_context(ast.left, prec, FALSE)
                   right_str == generate_expression_with_context(ast.right, prec, TRUE)
                   expression == left_str \o <<" ">> \o op_symbol(ast.op)
                                   \o <<" ">> \o right_str
               IN  IF parent_precedence # NoParent
                      /\ needs_parens(prec, parent_precedence, is_right_child)
                   THEN <<"(">> \o expression \o <<")">>
                   ELSE expression
          [] ast.kind = "FunctionCall" ->
               IF ast.name = ToIntName /\ Len(ast.args) = 1
               THEN <<"(">> \o gen(ast.args[1]) \o <<" ", "a", "s", " ", "i", "6", "4", ")">>
               ELSE IF ast.name = ToFloatName /\ Len(ast.args) = 1
               THEN <<"(">> \o gen(ast.args[1]) \o <<" ", "a", "s", " ", "f", "6", "4", ")">>
               ELSE IF ast.name = ToStringName /\ Len(ast.args) = 1
               THEN gen(ast.args[1])
                    \o <<".", "t", "o", "_", "s", "t", "r", "i", "n", "g", "(", ")">>
               ELSE ast.name \o <<"(">> \o args_str(ast.args) \o <<")">>
          [] ast.kind = "FieldAccess" -> gen(ast.object) \o <<".">> \o ast.field
          [] ast.kind = "MethodCall" ->
               IF ast.object.kind = "Identifier" /\ ast.object.name # <<>>
                  /\ is_uppercase(ast.object.name[1])
               THEN ast.object.name \o <<":", ":">> \o ast.method
                    \o <<"(">> \o args_str(ast.args) \o <<")">>
               ELSE gen(ast.object) \o <<".">> \o ast.method
                    \o <<"(">> \o args_str(ast.args) \o <<")">>

generate_expression(ast) == generate_expression_with_context(ast, NoParent, FALSE)

(***************************************************************************)
(* Code generator (src/src/codegen/mod.rs), statements and programs        *)
(***************************************************************************)
\* The string literals of the generator, character by character.
Lit ==
      \* "fn main() {\n    let result = "
    [ main_result_open |-> <<"f", "n", " ", "m", "a", "i", "n", "(", ")",
            " ", "{", "\n", " ", " ", " ", " ", "l", "e", "t", " ", "r",
            "e", "s", "u", "l", "t", " ", "=", " ">>,
      \* ";\n    println!("{}", result);\n}\n"
      main_result_close |-> <<";", "\n", " ", " ", " ", " ", "p", "r", "i",
            "n", "t", "l", "n", "!", "(", "\"", "{", "}", "\"", ",", " ",
            "r", "e", "s", "u", "l", "t", ")", ";", "\n", "}", "\n">>,
      \* "#[derive(Clone)]\nstruct "
      derive_struct |-> <<"#", "[", "d", "e", "r", "i", "v", "e", "(", "C",
            "l", "o", "n", "e", ")", "]", "\n", "s", "t", "r", "u", "c",
            "t", " ">>,
      \* " {\n"
      open_brace |-> <<" ", "{", "\n">>,
      \* "    "
      indent4 |-> <<" ", " ", " ", " ">>,
      \* "        "
      indent8 |-> <<" ", " ", " ", " ", " ", " ", " ", " ">>,
      \* "            "
      indent12 |-> <<" ", " ", " ", " ", " ", " ", " ", " ", " ", " ", " ",
            " ">>,
      \* ": i64,\n"
      field_type |-> <<":", " ", "i", "6", "4", ",", "\n">>,
      \* "}\n\n"
      close_block |-> <<"}", "\n", "\n">>,
      \* "impl "
      impl |-> <<"i", "m", "p", "l", " ">>,
      \* "fn main() {\n"
      main_open |-> <<"f", "n", " ", "m", "a", "i", "n", "(", ")", " ",
            "{", "\n">>,
      \* "}\n"
      close_fn |-> <<"}", "\n">>,
      \* "// class "
      class_comment |-> <<"/", "/", " ", "c", "l", "a", "s", "s", " ">>,
      \* "let "
      let |-> <<"l", "e", "t", " ">>,
      \* " = "
      equals |-> <<" ", "=", " ">>,
      \* "fn "
      fn |-> <<"f", "n", " ">>,
      \* ": i64, "
      param_sep |-> <<":", " ", "i", "6", "4", ",", " ">>,
      \* ": i64"
      param_type |-> <<":", " ", "i", "6", "4">>,
      \* ") -> i64 {\n"
      returns_i64 |-> <<")", " ", "-", ">", " ", "i", "6", "4", " ", "{",
            "\n">>,
      \* ") -> Self {\n"
      returns_self |-> <<")", " ", "-", ">", " ", "S", "e", "l", "f", " ",
            "{", "\n">>,
      \* "if "
      if |-> <<"i", "f", " ">>,
      \* "    }"
      close_inner |-> <<" ", " ", " ", " ", "}">>,
      \* " else if "
      else_if |-> <<" ", "e", "l", "s", "e", " ", "i", "f", " ">>,
      \* " else {\n"
      else |-> <<" ", "e", "l", "s", "e", " ", "{", "\n">>,
      \* "while "
      while |-> <<"w", "h", "i", "l", "e", " ">>,
      \* "println!();"
      println_empty |-> <<"p", "r", "i", "n", "t", "l", "n", "!", "(", ")",
            ";">>,
      \* "println!(""
      println_open |-> <<"p", "r", "i", "n", "t", "l", "n", "!", "(", "\"">>,
      \* "");"
      println_close |-> <<"\"", ")", ";">>,
      \* "", "
      println_values |-> <<"\"", ",", " ">>,
      \* ");"
      println_end |-> <<")", ";">>,
      \* "        Self {\n"
      self_open |-> <<" ", " ", " ", " ", " ", " ", " ", " ", "S", "e",
            "l", "f", " ", "{", "\n">>,
      \* "        }\n"
      self_close |-> <<" ", " ", " ", " ", " ", " ", " ", " ", "}", "\n">>,
      \* "    }\n\n"
      method_close |-> <<" ", " ", " ", " ", "}", "\n", "\n">>,
      \* "&self"
      ref_self |-> <<"&", "s", "e", "l", "f">>,
      \* "&self, "
      ref_self_sep |-> <<"&", "s", "e", "l", "f", ",", " ">>,
      \* "self."
      self_dot |-> <<"s", "e", "l", "f", ".">>,
      \* "new"
      new |-> <<"n", "e", "w">>,
      \* "print"
      print |-> <<"p", "r", "i", "n", "t">>,
      \* "self"
      self |-> <<"s", "e", "l", "f">> ]

\* [String]::join(sep)
RECURSIVE join_with(_, _)
join_with(strs, sep) ==
    IF strs = <<>> THEN <<>>
    ELSE IF Len(strs) = 1 THEN strs[1]
    ELSE strs[1] \o sep \o join_with(Tail(strs), sep)

\* `a: i64, b: i64` for the parameters a, b; empty without parameters.
params_with_types(params) ==
    IF params = <<>> THEN <<>>
    ELSE join_with(params, Lit.param_sep) \o Lit.param_type

starts_with(s, prefix) ==
    Len(s) >= Len(prefix) /\ SubSeq(s, 1, Len(prefix)) = prefix

strip_prefix(s, prefix) == SubSeq(s, Len(prefix) + 1, Len(s))

RECURSIVE trim_end_matches(_, _)
trim_end_matches(s, ch) ==
    IF s # <<>> /\ s[Len(s)] = ch
    THEN trim_end_matches(SubSeq(s, 1, Len(s) - 1), ch)
    ELSE s

\* Fault variant of replace_format_specifiers: only %d is replaced.
RECURSIVE replace_format_specifiers_d_only(_)
replace_format_specifiers_d_only(s) ==
    IF s = <<>> THEN <<>>
    ELSE IF Len(s) >= 2 /\ s[1] = "%" /\ s[2] = "d"
    THEN <<"{", "}">> \o replace_format_specifiers_d_only(SubSeq(s, 3, Len(s)))
    ELSE <<Head(s)>> \o replace_format_specifiers_d_only(Tail(s))

\* s.replace("%d", "{}").replace("%s", "{}")
RECURSIVE replace_format_specifiers(_)
replace_format_specifiers(s) ==
    IF s = <<>> THEN <<>>
    ELSE IF Len(s) >= 2 /\ s[1] = "%" /\ s[2] \in {"d", "s"}
    THEN <<"{", "}">> \o replace_format_specifiers(SubSeq(s, 3, Len(s)))
    ELSE <<Head(s)>> \o replace_format_specifiers(Tail(s))

generate_print_call(args) ==
    IF args = <<>> THEN Lit.println_empty
    ELSE LET format_str == IF args[1].kind = "String"
                           THEN replace_format_specifiers(args[1].value)
                           ELSE <<"{", "}">>
             values == [i \in 1..Len(args) - 1 |-> generate_expression(args[i + 1])]
         IN  IF values = <<>>
             THEN Lit.println_open \o format_str \o Lit.println_close
             ELSE Lit.println_open \o format_str \o Lit.println_values
                  \o join(values) \o Lit.println_end

\* The last statement of the body is an expression statement.
has_implicit_return(body) == body # <<>> /\ body[Len(body)].kind = "Expression"

RECURSIVE generate_statement(_), generate_block(_), function_body_code(_, _),
          generate_elif_branches(_)

\* The statements of a branch or of a loop body, one per line.
generate_block(stmts) ==
    IF stmts = <<>> THEN <<>>
    ELSE Lit.indent8 \o generate_statement(Head(stmts)) \o <<"\n">>
         \o generate_block(Tail(stmts))

\* Fault variant of function_body_code: the last statement is written as
\* every other statement.
function_body_code_all_statements(body, i) ==
    IF i > Len(body) THEN <<>>
    ELSE Lit.indent4 \o generate_statement(body[i]) \o <<"\n">>
         \o function_body_code(body, i + 1)

\* The loop of generate_function_def over the body, from statement i on.
function_body_code(body, i) ==
    IF i > Len(body) THEN <<>>
    ELSE Lit.indent4
         \o (IF i = Len(body) /\ has_implicit_return(body)
             THEN generate_expression(body[i].expr)
             ELSE generate_statement(body[i]))
         \o <<"\n">> \o function_body_code(body, i + 1)

generate_function_def(name, params, body) ==
    Lit.fn \o name \o <<"(">> \o params_with_types(params) \o Lit.returns_i64
    \o function_body_code(body, 1) \o Lit.close_fn

generate_elif_branches(branches) ==
    IF branches = <<>> THEN <<>>
    ELSE Lit.else_if \o generate_expression(branches[1][1]) \o Lit.open_brace
         \o generate_block(branches[1][2]) \o Lit.close_inner
         \o generate_elif_branches(Tail(branches))

generate_if_statement(condition, then_branch, elif_branches, else_branch) ==
    Lit.if \o generate_expression(condition) \o Lit.open_brace
    \o generate_block(then_branch) \o Lit.close_inner
    \o generate_elif_branches(elif_branches)
    \o (IF else_branch.some
        THEN Lit.else \o generate_block(else_branch.body) \o Lit.close_inner
        ELSE <<>>)

generate_while_statement(condition, body) ==
    Lit.while \o generate_expression(condition) \o Lit.open_brace
    \o generate_block(body) \o Lit.close_inner

\* "not used directly, kept for compatibility"
generate_method_def(class_name, method_name, params, body) == <<>>

generate_statement(stmt) ==
    CASE stmt.kind = "FunctionDef" ->
             generate_function_def(stmt.name, stmt.params, stmt.body)
      [] stmt.kind = "ClassDef" -> Lit.class_comment \o stmt.name
      [] stmt.kind = "MethodDef" ->
             generate_method_def(stmt.class_name, stmt.method_name,
                                 stmt.params, stmt.body)
      [] stmt.kind = "Assignment" ->
             Lit.let \o stmt.name \o Lit.equals
             \o generate_expression(stmt.value) \o <<";">>
      [] stmt.kind = "If" ->
             generate_if_statement(stmt.condition, stmt.then_branch,
                                   stmt.elif_branches, stmt.else_branch)
      [] stmt.kind = "While" -> generate_while_statement(stmt.condition, stmt.body)
      [] stmt.kind = "Expression" ->
             IF stmt.expr.kind = "FunctionCall" /\ stmt.expr.name = Lit.print
             THEN generate_print_call(stmt.expr.args)
             ELSE generate_expression(stmt.expr) \o <<";">>

RECURSIVE generate_expression_with_self(_)
generate_expression_with_self(e) ==
    CASE e.kind = "Identifier" /\ e.name # Lit.self -> Lit.self_dot \o e.name
      [] e.kind = "BinaryOp" ->
             generate_expression_with_self(e.left) \o <<" ">> \o op_symbol(e.op)
             \o <<" ">> \o generate_expression_with_self(e.right)
      [] e.kind = "FieldAccess" ->
             generate_expression_with_self(e.object) \o <<".">> \o e.field
      [] OTHER -> generate_expression(e)

generate_statement_with_self(stmt) ==
    IF stmt.kind = "Expression"
    THEN generate_expression_with_self(stmt.expr) \o <<";">>
    ELSE generate_statement(stmt)

\* name is the target of a `self.field = value` assignment.
is_self_field(stmt) ==
    stmt.kind = "Assignment" /\ starts_with(stmt.name, Lit.self_dot)

\* The field initializers of the constructor, in the order of the body.
RECURSIVE field_assignments(_)
field_assignments(body) ==
    IF body = <<>> THEN <<>>
    ELSE (IF is_self_field(Head(body))
          THEN Lit.indent12 \o strip_prefix(Head(body).name, Lit.self_dot)
               \o <<":", " ">> \o generate_expression(Head(body).value)
               \o <<",", "\n">>
          ELSE <<>>)
         \o field_assignments(Tail(body))

\* The loop of a regular method over its body, from statement i on.
RECURSIVE method_body_code(_, _)
method_body_code(body, i) ==
    IF i > Len(body) THEN <<>>
    ELSE (IF is_self_field(body[i]) THEN <<>>
          ELSE Lit.indent8
               \o (IF i = Len(body) /\ has_implicit_return(body)
                   THEN trim_end_matches(generate_statement_with_self(body[i]), ";")
                   ELSE generate_statement_with_self(body[i]))
               \o <<"\n">>)
         \o method_body_code(body, i + 1)

generate_method_impl(method_name, params, body) ==
    IF method_name = Lit.new
    THEN Lit.indent4 \o Lit.fn \o method_name \o <<"(">>
         \o params_with_types(params) \o Lit.returns_self
         \o Lit.self_open \o field_assignments(body) \o Lit.self_close
         \o Lit.method_close
    ELSE Lit.indent4 \o Lit.fn \o method_name \o <<"(">>
         \o (IF params = <<>> THEN Lit.ref_self
             ELSE Lit.ref_self_sep \o params_with_types(params))
         \o Lit.returns_i64 \o method_body_code(body, 1) \o Lit.method_close

\* The set the HashSet of field names holds after scanning a body.
RECURSIVE collect_fields(_)
collect_fields(body) ==
    IF body = <<>> THEN {}
    ELSE LET stmt == Head(body)
         IN  (CASE is_self_field(stmt) -> {strip_prefix(stmt.name, Lit.self_dot)}
                [] stmt.kind = "If" ->
                     collect_fields(stmt.then_branch)
                     \cup UNION {collect_fields(stmt.elif_branches[i][2]) :
                                    i \in 1..Len(stmt.elif_branches)}
                     \cup collect_fields(stmt.else_branch.body)
                [] stmt.kind = "While" -> collect_fields(stmt.body)
                [] stmt.kind = "Expression" /\ stmt.expr.kind = "FieldAccess"
                   /\ stmt.expr.object = Identifier(Lit.self) -> {stmt.expr.field}
                [] OTHER -> {})
             \cup collect_fields(Tail(body))

\* The keys of the `classes` HashMap: the names of the ClassDef statements
\* and the class names of the MethodDef statements.
class_names(program) ==
    {program.statements[i].name :
        i \in {j \in 1..Len(program.statements) :
                  program.statements[j].kind = "ClassDef"}}
    \cup {program.statements[i].class_name :
             i \in {j \in 1..Len(program.statements) :
                       program.statements[j].kind = "MethodDef"}}

\* classes[class_name]: the MethodDef statements of the class, in program order.
methods_of(program, class_name) ==
    LET IsMethod(stmt) == stmt.kind = "MethodDef" /\ stmt.class_name = class_name
    IN  SelectSeq(program.statements, IsMethod)

\* The `fields` HashSet of a class: the fields of all its methods.
class_fields(program, class_name) ==
    LET methods == methods_of(program, class_name)
    IN  UNION {collect_fields(methods[i].body) : i \in 1..Len(methods)}

\* The orders in which iterating a HashMap or a HashSet holding the
\* elements of S can yield them: the hasher is seeded at random, so every
\* order is possible.
IterationOrders(S) ==
    {order \in [1..Cardinality(S) -> S] :
        \A i, j \in 1..Cardinality(S) : i # j => order[i] # order[j]}

\* The choices of one generate_program call: an order for the classes and,
\* for each class, an order for its fields.
HashOrders(program) ==
    [classes : IterationOrders(class_names(program)),
     fields : {f \in [class_names(program) ->
                        UNION {IterationOrders(class_fields(program, c)) :
                                  c \in class_names(program)}] :
                  \A c \in class_names(program) :
                      f[c] \in IterationOrders(class_fields(program, c))}]

RECURSIVE struct_fields_code(_)
struct_fields_code(fields) ==
    IF fields = <<>> THEN <<>>
    ELSE Lit.indent4 \o Head(fields) \o Lit.field_type
         \o struct_fields_code(Tail(fields))

RECURSIVE methods_code(_)
methods_code(methods) ==
    IF methods = <<>> THEN <<>>
    ELSE generate_method_impl(Head(methods).method_name, Head(methods).params,
                              Head(methods).body)
         \o methods_code(Tail(methods))

\* The struct and the impl block of one class.
class_code(program, class_name, fields) ==
    Lit.derive_struct \o class_name \o Lit.open_brace
    \o struct_fields_code(fields) \o Lit.close_block
    \o Lit.impl \o class_name \o Lit.open_brace
    \o methods_code(methods_of(program, class_name)) \o Lit.close_block

RECURSIVE classes_code(_, _, _)
classes_code(program, class_order, field_order) ==
    IF class_order = <<>> THEN <<>>
    ELSE class_code(program, Head(class_order), field_order[Head(class_order)])
         \o classes_code(program, Tail(class_order), field_order)

\* The FunctionDef statements, each followed by an empty line.
RECURSIVE functions_code(_)
functions_code(stmts) ==
    IF stmts = <<>> THEN <<>>
    ELSE (IF Head(stmts).kind = "FunctionDef"
          THEN generate_statement(Head(stmts)) \o <<"\n">>
          ELSE <<>>)
         \o functions_code(Tail(stmts))

\* main_body: every statement that is no function, class or method.
RECURSIVE main_body_code(_)
main_body_code(stmts) ==
    IF stmts = <<>> THEN <<>>
    ELSE (IF Head(stmts).kind \in {"FunctionDef", "ClassDef", "MethodDef"}
          THEN <<>>
          ELSE Lit.indent4 \o generate_statement(Head(stmts)) \o <<"\n">>)
         \o main_body_code(Tail(stmts))

\* Fault variant of is_single_expression: a function call counts as well.
is_single_expression_any(program) ==
    /\ Len(program.statements) = 1
    /\ program.statements[1].kind = "Expression"

\* The special case of generate_program: one expression statement that is
\* not a function call.
is_single_expression(program) ==
    /\ Len(program.statements) = 1
    /\ program.statements[1].kind = "Expression"
    /\ program.statements[1].expr.kind # "FunctionCall"

\* generate_program, given the orders in which its HashMap and HashSets
\* are iterated.
generate_program(program, orders) ==
    IF is_single_expression(program)
    THEN Lit.main_result_open \o generate_expression(program.statements[1].expr)
         \o Lit.main_result_close
    ELSE classes_code(program, orders.classes, orders.fields)
         \o functions_code(program.statements)
         \o Lit.main_open \o main_body_code(program.statements) \o Lit.close_fn

(***************************************************************************)
(* The places of the generator that can panic: an index or a slice past    *)
(* the end of a vector, unwrap on None, and `len() - 1` on an empty vector *)
(* (a panic of the builds that check overflow).  Each is reached only      *)
(* under the conditions the code puts before it.                           *)
(***************************************************************************)
\* generate_expression_with_context: &args[0] of the conversion functions.
RECURSIVE expression_panics(_)
expression_panics(e) ==
    CASE e.kind = "BinaryOp" -> expression_panics(e.left) \/ expression_panics(e.right)
      [] e.kind = "Grouped" -> expression_panics(e.expr)
      [] e.kind = "FunctionCall" ->
             IF e.name \in {ToIntName, ToFloatName, ToStringName} /\ Len(e.args) = 1
             THEN Len(e.args) < 1 \/ expression_panics(e.args[1])
             ELSE \E i \in 1..Len(e.args) : expression_panics(e.args[i])
      [] e.kind = "FieldAccess" -> expression_panics(e.object)
      [] e.kind = "MethodCall" ->
             \/ expression_panics(e.object)
             \/ \E i \in 1..Len(e.args) : expression_panics(e.args[i])
      [] OTHER -> FALSE

\* generate_print_call: &args[0] and args[1..], after the return on no argument.
print_call_panics(args) ==
    /\ args # <<>>
    /\ \/ Len(args) < 1
       \/ 1 > Len(args)
       \/ \E i \in 2..Len(args) : expression_panics(args[i])

RECURSIVE statement_panics(_)

\* Fault variant of statement_panics: generate_function_def computes
\* body.len() - 1 before its loop.
statement_panics_eager_last(stmt) ==
    stmt.kind = "FunctionDef" /\ Len(stmt.body) - 1 < 0

\* generate_statement, with generate_function_def (body.len() - 1 inside the
\* loop), generate_if_statement and generate_while_statement.
statement_panics(stmt) ==
    LET block_panics(stmts) == \E i \in 1..Len(stmts) : statement_panics(stmts[i])
    IN  CASE stmt.kind = "FunctionDef" ->
                 \E i \in 1..Len(stmt.body) :
                     \/ Len(stmt.body) - 1 < 0
                     \/ IF i = Len(stmt.body) /\ has_implicit_return(stmt.body)
                        THEN expression_panics(stmt.body[i].expr)
                        ELSE statement_panics(stmt.body[i])
          [] stmt.kind = "Assignment" -> expression_panics(stmt.value)
          [] stmt.kind = "If" ->
                 \/ expression_panics(stmt.condition)
                 \/ block_panics(stmt.then_branch)
                 \/ \E k \in 1..Len(stmt.elif_branches) :
                        \/ expression_panics(stmt.elif_branches[k][1])
                        \/ block_panics(stmt.elif_branches[k][2])
                 \/ stmt.else_branch.some /\ block_panics(stmt.else_branch.body)
          [] stmt.kind = "While" ->
                 expression_panics(stmt.condition) \/ block_panics(stmt.body)
          [] stmt.kind = "Expression" ->
                 IF stmt.expr.kind = "FunctionCall" /\ stmt.expr.name = Lit.print
                 THEN print_call_panics(stmt.expr.args)
                 ELSE expression_panics(stmt.expr)
          [] OTHER -> FALSE

\* generate_method_impl: strip_prefix("self.").unwrap() after starts_with in
\* the constructor; body.len() - 1 inside the loop of a regular method.
method_impl_panics(method_name, body) ==
    IF method_name = Lit.new
    THEN \E i \in 1..Len(body) :
             /\ is_self_field(body[i])
             /\ \/ ~starts_with(body[i].name, Lit.self_dot)
                \/ expression_panics(body[i].value)
    ELSE \E i \in 1..Len(body) :
             \/ Len(body) - 1 < 0
             \/ ~is_self_field(body[i])
                /\ IF body[i].kind = "Expression"
                   THEN expression_panics(body[i].expr)
                   ELSE statement_panics(body[i])

\* generate_program: &program.statements[0] after len() == 1, then every
\* method, function and statement it generates.
program_panics(program) ==
    \/ Len(program.statements) = 1 /\ Len(program.statements) < 1
    \/ IF is_single_expression(program)
       THEN expression_panics(program.statements[1].expr)
       ELSE \E i \in 1..Len(program.statements) :
                LET stmt == program.statements[i]
                IN  CASE stmt.kind = "MethodDef" ->
                             method_impl_panics(stmt.method_name, stmt.body)
                      [] stmt.kind = "ClassDef" -> FALSE
                      [] OTHER -> statement_panics(stmt)

(***************************************************************************)
(* parse_string of tests/parser_tests.rs: the expression of the first      *)
(* statement of the parsed program.                                        *)
(***************************************************************************)
first_expression(result) ==
    IF ~result.ok THEN [ok |-> FALSE, expr |-> NoValue]
    ELSE IF result.val.statements = <<>> THEN [ok |-> FALSE, expr |-> NoValue]
    ELSE LET stmt == result.val.statements[1]
         IN  CASE stmt.kind = "Expression" -> [ok |-> TRUE, expr |-> stmt.expr]
               [] stmt.kind = "Assignment" -> [ok |-> TRUE, expr |-> stmt.value]
               [] OTHER -> [ok |-> FALSE, expr |-> NoValue]

\* The expression of a parsed program, wrapped as parse_string returns it.
parsed_expression(e) == [panic |-> FALSE, ok |-> e.ok, expr |-> e.expr]

\* parse_string on a token vector: the steps after tokenize().
parse_tokens(t) ==
    IF t.panic THEN [panic |-> TRUE, ok |-> FALSE, expr |-> NoValue]
    ELSE parsed_expression(first_expression(parse(t.tokens)))

parse_string(text) == parse_tokens(tokenize(text))

(***************************************************************************)
(* Inputs                                                                  *)
(***************************************************************************)
Texts(alphabet, n) == UNION {[1..k -> alphabet] : k \in 0..n}

\* Characters of the texts the tokenizer scans exhaustively.
LexAlphabet == {"1", "a", "+", "=", "!", "<", " ", "\n", "@", "'", "."}

\* Characters of the sources run exhaustively through the whole pipeline.
SrcAlphabet == {"1", "a", "+", "-", "*", "<", "(", ")", "'"}

\* Longer sources: the examples of the specification and of the tests.
SrcSamples ==
    { <<"(", "1", "+", "2", ")", "*", "3">>,
      <<"(", "1", " ", "+", " ", "2">>,
      <<"1", " ", "-", " ", "2", " ", "-", " ", "3">>,
      <<"1", " ", "+", " ", "2", " ", "*", " ", "3">>,
      <<"1", " ", "-", " ", "(", "2", " ", "-", " ", "3", ")">>,
      <<"t", "o", "_", "i", "n", "t", "(", "1", ")">>,
      <<"f", "(", "1", ",", " ", "2", "*", "3", ")">>,
      <<"x", " ", "=", " ", "(", "4", "2", ")">>,
      <<"1", " ", "=", "=", " ", "2", " ", "+", " ", "3">>,
      <<"1", "\n", "(", "2", ")">> }

NoResult == [ok |-> FALSE, val |-> NoValue, err |-> NoError, pos |-> 0]

NoReparse == [panic |-> FALSE, ok |-> FALSE, expr |-> NoValue]

NoProgram == [statements |-> <<>>]

\* generate_program has not been called.
NothingGenerated == prog = NoProgram /\ code = <<>> /\ again = <<>>

\* Tokenizer::new(input), nothing else done yet.
Fresh(text, stg) ==
    /\ input = text
    /\ position = 0
    /\ line = 1
    /\ column = 1
    /\ tokens = <<>>
    /\ lexState = "scanning"
    /\ lastTok = NoToken
    /\ started = Cursor(0, 1, 1)
    /\ panicInfo = NoPanic
    /\ eofCalls = 0
    /\ parsed = NoResult
    /\ expr = NoValue
    /\ generated = <<>>
    /\ reparsed = NoReparse
    /\ NothingGenerated
    /\ stage = stg

(***************************************************************************)
(* The tokenizer, call by call                                             *)
(***************************************************************************)
\* Longer texts: the words and the number-dot inputs of the tests.
LexSamples ==
    { <<"f", "n">>, <<"i", "f">>, <<"e", "l", "i", "f">>, <<"e", "l", "s", "e">>,
      <<"w", "h", "i", "l", "e">>, <<"c", "l", "a", "s", "s">>,
      <<"s", "e", "l", "f">>, <<"c", "l", "a", "s", "s", " ", "F", "o", "o">>,
      <<"s", "e", "l", "f", "i", "s", "h">>, <<"_", "i", "f", "2">>,
      <<"4", "2", ".", "f", "o", "o">>, <<"4", "2", ".">> }

Init == \E text \in Texts(LexAlphabet, MaxLen) \cup LexSamples : Fresh(text, "lex")

\* One iteration of the loop of tokenize(): next_token, push, test for Eof.
TokenizeStep ==
    /\ stage = "lex"
    /\ lexState = "scanning"
    /\ \E r \in {next_token(input, Cursor(position, line, column))} :
           /\ started' = Cursor(position, line, column)
           /\ position' = r.cur.position
           /\ line' = r.cur.line
           /\ column' = r.cur.column
           /\ lastTok' = r.token
           /\ panicInfo' = r.info
           /\ IF r.panic
              THEN tokens' = <<>> /\ lexState' = "panic"
              ELSE /\ tokens' = Append(tokens, r.token)
                   /\ lexState' = IF is_eof(r.token) THEN "done" ELSE "scanning"
    /\ UNCHANGED <<input, eofCalls, parsed, expr, generated, reparsed, stage>>
    /\ UNCHANGED progVars

\* A further next_token call on the tokenizer after tokenize() returned.
NextTokenAfterEof ==
    /\ stage = "lex"
    /\ lexState = "done"
    /\ eofCalls < MaxEofCalls
    /\ \E r \in {next_token(input, Cursor(position, line, column))} :
           /\ started' = Cursor(position, line, column)
           /\ position' = r.cur.position
           /\ line' = r.cur.line
           /\ column' = r.cur.column
           /\ lastTok' = r.token
           /\ panicInfo' = r.info
           /\ lexState' = IF r.panic THEN "panic" ELSE "done"
    /\ eofCalls' = eofCalls + 1
    /\ UNCHANGED <<input, tokens, parsed, expr, generated, reparsed, stage>>
    /\ UNCHANGED progVars

Next == TokenizeStep \/ NextTokenAfterEof

Spec == Init /\ [][Next]_vars

\* Characters of the string literals scanned exhaustively.
StrAlphabet == {"\\", "n", "t", "r", "'", "a", "\n"}

\* The tokenizer on a text that opens a string literal.
InitStr == \E body \in Texts(StrAlphabet, MaxStr) : Fresh(<<"'">> \o body, "lex")

SpecStr == InitStr /\ [][Next]_vars

(***************************************************************************)
(* The pipeline of lib.rs::run on a source text, followed by the round     *)
(* trip through the generated expression                                   *)
(***************************************************************************)
InitPipe ==
    \E text \in Texts(SrcAlphabet, MaxSrcLen) \cup SrcSamples : Fresh(text, "source")

\* tokenizer.tokenize()
Tokenize ==
    /\ stage = "source"
    /\ \E t \in {tokenize(input)} :
           /\ tokens' = t.tokens
           /\ position' = t.cur.position
           /\ line' = t.cur.line
           /\ column' = t.cur.column
           /\ panicInfo' = t.info
           /\ lexState' = IF t.panic THEN "panic" ELSE "done"
           /\ lastTok' = IF t.panic THEN NoToken ELSE t.tokens[Len(t.tokens)]
           /\ stage' = IF t.panic THEN "aborted" ELSE "tokens"
    /\ UNCHANGED <<input, started, eofCalls, parsed, expr, generated, reparsed>>
    /\ UNCHANGED progVars

\* Parser::new(tokens).parse()
Parse ==
    /\ stage = "tokens"
    /\ parsed' = parse(tokens)
    /\ stage' = "parsed"
    /\ UNCHANGED <<lexVars, expr, generated, reparsed>>
    /\ UNCHANGED progVars

\* CodeGenerator::generate_expression on the expression parse_string extracts
Generate ==
    /\ stage = "parsed"
    /\ first_expression(parsed).ok
    /\ expr' = first_expression(parsed).expr
    /\ generated' = generate_expression(expr')
    /\ stage' = "generated"
    /\ UNCHANGED <<lexVars, parsed, reparsed>>
    /\ UNCHANGED progVars

\* parse_string on the generated text
Reparse ==
    /\ stage = "generated"
    /\ reparsed' = parse_string(generated)
    /\ stage' = "reparsed"
    /\ UNCHANGED <<lexVars, parsed, expr, generated>>
    /\ UNCHANGED progVars

NextPipe == Tokenize \/ Parse \/ Generate \/ Reparse

SpecPipe == InitPipe /\ [][NextPipe]_vars

(***************************************************************************)
(* The expression generator on arbitrary Expr values                       *)
(***************************************************************************)
GenOps == {"Add", "Subtract", "Multiply", "LessThan"}

RECURSIVE Exprs(_)
Exprs(d) ==
    IF d = 0 THEN {Integer(1)}
    ELSE LET sub == Exprs(d - 1)
         IN  sub
             \cup {BinaryOp(l, op, r) : l \in sub, op \in GenOps, r \in sub}
             \cup {Grouped(e) : e \in sub}
             \cup {FunctionCall(<<"f">>, <<e>>) : e \in sub}

InitGen ==
    /\ \E e \in Exprs(MaxDepth) : expr = e
    /\ input = <<>>
    /\ position = 0
    /\ line = 1
    /\ column = 1
    /\ tokens = <<>>
    /\ lexState = "scanning"
    /\ lastTok = NoToken
    /\ started = Cursor(0, 1, 1)
    /\ panicInfo = NoPanic
    /\ eofCalls = 0
    /\ parsed = NoResult
    /\ generated = <<>>
    /\ reparsed = NoReparse
    /\ NothingGenerated
    /\ stage = "ast"

\* CodeGenerator::generate_expression(&expr)
GenerateExpr ==
    /\ stage = "ast"
    /\ generated' = generate_expression(expr)
    /\ stage' = "generated"
    /\ UNCHANGED <<lexVars, parsed, expr, reparsed>>
    /\ UNCHANGED progVars

NextGen == GenerateExpr

SpecGen == InitGen /\ [][NextGen]_vars

(***************************************************************************)
(* The parser on arbitrary token vectors: Parser::new(tokens).parse()      *)
(***************************************************************************)
\* Token types of the vectors parsed exhaustively.
TokAlphabet ==
    {TInteger(1), TIdentifier(<<"a">>), TT("Self_"), TT("Dot"), TT("Equals"),
     TT("EqualEqual"), TT("LeftParen"), TT("RightParen"), TT("Newline"), TT("Plus")}

\* Token types of the vectors with blocks and parameter lists parsed
\* exhaustively.
BlockAlphabet ==
    {TIdentifier(<<"a">>), TT("Fn"), TT("While"), TT("LeftParen"), TT("RightParen"),
     TT("LeftBrace"), TT("RightBrace"), TT("Comma"), TT("Newline")}

\* Tokens of one line, the i-th in column i.
Positioned(types) == [i \in 1..Len(types) |-> Token(types[i], 1, i)]

\* Longer vectors, and vectors that do not end with Eof.
TokSamples ==
    { <<>>,
      <<TT("Newline"), TT("Newline")>>,
      <<TIdentifier(<<"a">>), TT("Dot"), TIdentifier(<<"b">>), TT("LeftParen"),
        TInteger(1), TT("Comma"), TIdentifier(<<"a">>), TT("RightParen"), TT("Eof")>>,
      <<TT("Self_"), TT("Dot"), TIdentifier(<<"x">>), TT("Equals"), TInteger(1),
        TT("Plus"), TIdentifier(<<"a">>), TT("Eof")>>,
      <<TT("Self_"), TT("Dot"), TIdentifier(<<"x">>), TT("EqualEqual"), TInteger(1),
        TT("Eof")>>,
      <<TT("Self_"), TT("Dot"), TIdentifier(<<"a">>), TT("Equals"), TInteger(1),
        TT("Eof")>>,
      <<TIdentifier(<<"a">>), TT("Dot"), TIdentifier(<<"b">>), TT("LeftParen"),
        TT("RightParen"), TT("Eof")>>,
      <<TT("Newline"), TT("Newline"), TT("Newline"), TT("Newline"),
        TT("Newline"), TT("Newline"), TT("Eof")>>,
      <<TT("Fn"), TIdentifier(<<"f">>), TT("LeftParen"), TIdentifier(<<"a">>),
        TT("Comma"), TIdentifier(<<"b">>), TT("RightParen"), TT("LeftBrace"),
        TT("Newline"), TIdentifier(<<"a">>), TT("Equals"), TIdentifier(<<"g">>),
        TT("LeftParen"), TInteger(1), TT("Comma"), TInteger(2), TT("RightParen"),
        TT("Newline"), TIdentifier(<<"a">>), TT("Plus"), TIdentifier(<<"b">>),
        TT("Newline"), TT("RightBrace"), TT("Newline"), TT("Eof")>>,
      <<TT("If"), TIdentifier(<<"a">>), TT("LeftBrace"), TInteger(1), TT("RightBrace"),
        TT("Elif"), TIdentifier(<<"b">>), TT("LeftBrace"), TT("RightBrace"),
        TT("Else"), TT("LeftBrace"), TIdentifier(<<"f">>), TT("LeftParen"),
        TInteger(1), TT("Comma"), TInteger(2), TT("RightParen"), TT("RightBrace"),
        TT("Eof")>>,
      <<TT("Fn"), TIdentifier(<<"f">>), TT("LeftParen"), TIdentifier(<<"a">>),
        TT("Comma")>>,
      <<TT("While"), TIdentifier(<<"a">>), TT("LeftBrace"), TIdentifier(<<"a">>)>>,
      <<TIdentifier(<<"a">>), TT("Equals"), TInteger(1), TIdentifier(<<"b">>),
        TT("Equals"), TInteger(2), TT("Eof")>> }

TokenVectors ==
    {Positioned(Append(body, TT("Eof"))) :
        body \in Texts(TokAlphabet, MaxToks) \cup Texts(BlockAlphabet, MaxToks)}
    \cup {Positioned(types) : types \in TokSamples}

InitParse ==
    /\ \E toks \in TokenVectors : tokens = toks
    /\ input = <<>>
    /\ position = 0
    /\ line = 1
    /\ column = 1
    /\ lexState = "done"
    /\ lastTok = NoToken
    /\ started = Cursor(0, 1, 1)
    /\ panicInfo = NoPanic
    /\ eofCalls = 0
    /\ parsed = NoResult
    /\ expr = NoValue
    /\ generated = <<>>
    /\ reparsed = NoReparse
    /\ NothingGenerated
    /\ stage = "tokens"

NextParse == Parse

SpecParse == InitParse /\ [][NextParse]_vars

(***************************************************************************)
(* The program generator: CodeGenerator::generate_program, called twice    *)
(* on one Program                                                          *)
(***************************************************************************)
ClassA == <<"A">>

ClassB == <<"B">>

NameNew == <<"n", "e", "w">>

NameGet == <<"g", "e", "t">>

SelfX == <<"s", "e", "l", "f", ".", "x">>

SelfY == <<"s", "e", "l", "f", ".", "y">>

Ident(c) == Identifier(<<c>>)

\* Statements of the programs generated exhaustively.
StmtPool ==
    { ClassDef(ClassA), ClassDef(ClassB),
      MethodDef(ClassA, NameNew, <<<<"x">>>>,
                <<Assignment(SelfX, Ident("x")), Assignment(SelfY, Integer(1))>>),
      MethodDef(ClassA, NameGet, <<>>, <<ExpressionStmt(Ident("x"))>>),
      MethodDef(ClassB, NameGet, <<>>, <<ExpressionStmt(Integer(2))>>),
      FunctionDef(<<"f">>, <<<<"a">>, <<"b">>>>,
                  <<ExpressionStmt(BinaryOp(Ident("a"), "Add", Ident("b")))>>),
      FunctionDef(<<"g">>, <<>>, <<Assignment(<<"y">>, Integer(1))>>),
      Assignment(<<"y">>, Integer(1)),
      ExpressionStmt(BinaryOp(Integer(1), "Add", Integer(2))),
      ExpressionStmt(FunctionCall(<<"f">>, <<Integer(1), Integer(2)>>)),
      ExpressionStmt(FunctionCall(ToIntName, <<Ident("x")>>)) }

\* Statements of the function and method bodies generated exhaustively.
BodyPool ==
    { Assignment(<<"y">>, Integer(1)),
      ExpressionStmt(BinaryOp(Ident("x"), "Add", Ident("a"))),
      ExpressionStmt(Grouped(Ident("a"))),
      ExpressionStmt(FunctionCall(Lit.print, <<Ident("x")>>)),
      WhileStmt(Ident("x"), <<Assignment(<<"y">>, Ident("a"))>>),
      Assignment(SelfX, Ident("a")),
      IfStmt(Ident("x"), <<Assignment(SelfY, Integer(1))>>, <<>>,
             SomeBranch(<<ExpressionStmt(FieldAccess(Identifier(Lit.self), <<"z">>))>>)),
      ExpressionStmt(BinaryOp(FieldAccess(Identifier(Lit.self), <<"w">>), "Add",
                              Integer(1))) }

\* The characters of the format strings generated exhaustively.
FormatChars == {"%", "d", "s", "a", "\""}

\* Arguments of print after the first.
PrintValues == {Ident("x"), Integer(1), StringLit(<<"\"">>)}

\* The argument lists of print: none, a string literal first, another
\* expression first.
PrintArgLists ==
    {<<>>}
    \cup {<<StringLit(s)>> \o values :
             s \in Texts(FormatChars, MaxFormat), values \in Texts(PrintValues, MaxValues)}
    \cup {<<first>> \o values :
             first \in {Ident("x"), Integer(1)}, values \in Texts(PrintValues, MaxValues)}

PrintCall(args) == ExpressionStmt(FunctionCall(Lit.print, args))

\* The places of a Program a statement can stand in.
Places(stmt) ==
    { <<stmt>>,
      <<Assignment(<<"y">>, Integer(1)), stmt>>,
      <<IfStmt(Ident("x"), <<stmt>>, <<<<Ident("a"), <<stmt>>>>>>, SomeBranch(<<stmt>>))>>,
      <<WhileStmt(Ident("x"), <<stmt>>)>>,
      <<FunctionDef(<<"f">>, <<<<"x">>>>, <<stmt, Assignment(<<"y">>, Integer(1))>>)>>,
      <<FunctionDef(<<"f">>, <<<<"x">>>>, <<stmt>>)>>,
      <<MethodDef(ClassA, NameGet, <<<<"x">>>>, <<stmt, Assignment(<<"y">>, Integer(1))>>)>>,
      <<MethodDef(ClassA, NameGet, <<<<"x">>>>, <<stmt>>)>> }

PrintSamples ==
    { <<>>, <<Ident("x")>>, <<StringLit(<<"%", "d">>), Ident("x")>>,
      <<StringLit(<<"\"", "a", "\"">>)>> }

PrintPrograms ==
    {Program(<<PrintCall(args)>>) : args \in PrintArgLists}
    \cup UNION {{Program(stmts) : stmts \in Places(PrintCall(args))} :
                  args \in PrintSamples}

Programs ==
    {Program(stmts) : stmts \in Texts(StmtPool, MaxStmts)}
    \cup PrintPrograms
    \cup {Program(<<FunctionDef(<<"f">>, <<<<"x">>>>, body)>>) :
             body \in Texts(BodyPool, MaxBody)}
    \cup {Program(<<MethodDef(ClassA, NameGet, <<<<"x">>>>, body)>>) :
             body \in Texts(BodyPool, MaxBody)}

InitProg ==
    /\ prog \in Programs
    /\ code = <<>>
    /\ again = <<>>
    /\ input = <<>>
    /\ position = 0
    /\ line = 1
    /\ column = 1
    /\ tokens = <<>>
    /\ lexState = "done"
    /\ lastTok = NoToken
    /\ started = Cursor(0, 1, 1)
    /\ panicInfo = NoPanic
    /\ eofCalls = 0
    /\ parsed = NoResult
    /\ expr = NoValue
    /\ generated = <<>>
    /\ reparsed = NoReparse
    /\ stage = "program"

\* CodeGenerator::generate_program(&program)
GenerateProgram ==
    /\ stage = "program"
    /\ IF program_panics(prog)
       THEN code' = code /\ stage' = "panicked"
       ELSE /\ \E orders \in HashOrders(prog) : code' = generate_program(prog, orders)
            /\ stage' = "coded"
    /\ UNCHANGED <<lexVars, parsed, expr, generated, reparsed, prog, again>>

\* CodeGenerator::generate_program(&program), a second time
GenerateProgramAgain ==
    /\ stage = "coded"
    /\ \E orders \in HashOrders(prog) : again' = generate_program(prog, orders)
    /\ stage' = "recoded"
    /\ UNCHANGED <<lexVars, parsed, expr, generated, reparsed, prog, code>>

NextProg == GenerateProgram \/ GenerateProgramAgain

SpecProg == InitProg /\ [][NextProg]_vars

(***************************************************************************)
(* Vocabulary of the properties                                            *)
(***************************************************************************)
\* The tier of an operator: comparisons, then + and -, then * and /.
Tier(op) ==
    IF op \in {"Multiply", "Divide"} THEN 3
    ELSE IF op \in {"Add", "Subtract"} THEN 2
    ELSE 1

OperatorOfToken ==
    [Plus |-> "Add", Minus |-> "Subtract", Multiply |-> "Multiply",
     Divide |-> "Divide", EqualEqual |-> "EqualEqual", NotEqual |-> "NotEqual",
     LessThan |-> "LessThan", LessThanOrEqual |-> "LessThanOrEqual",
     GreaterThan |-> "GreaterThan", GreaterThanOrEqual |-> "GreaterThanOrEqual"]

IsOperatorToken(tok) == tok.token_type.kind \in DOMAIN OperatorOfToken

IsAtomToken(tok) == tok.token_type.kind \in {"Integer", "Identifier", "String"}

AtomOf(tok) ==
    CASE tok.token_type.kind = "Integer" -> Integer(tok.token_type.value)
      [] tok.token_type.kind = "Identifier" -> Identifier(tok.token_type.name)
      [] tok.token_type.kind = "String" -> StringLit(tok.token_type.value)

\* The token vector of an unparenthesised source `a op1 b op2 c`.
IsChain(toks) ==
    /\ Len(toks) = 6
    /\ IsAtomToken(toks[1]) /\ IsOperatorToken(toks[2])
    /\ IsAtomToken(toks[3]) /\ IsOperatorToken(toks[4])
    /\ IsAtomToken(toks[5]) /\ toks[6].token_type.kind = "Eof"

ChainOp(toks, i) == OperatorOfToken[toks[i].token_type.kind]

RightNested(toks) ==
    BinaryOp(AtomOf(toks[1]), ChainOp(toks, 2),
             BinaryOp(AtomOf(toks[3]), ChainOp(toks, 4), AtomOf(toks[5])))

LeftNested(toks) ==
    BinaryOp(BinaryOp(AtomOf(toks[1]), ChainOp(toks, 2), AtomOf(toks[3])),
             ChainOp(toks, 4), AtomOf(toks[5]))

Parsed == stage \in {"parsed", "generated", "reparsed"}

Generated == stage \in {"generated", "reparsed"}

RECURSIVE SubExprs(_)
SubExprs(e) ==
    {e} \cup
    CASE e.kind = "BinaryOp" -> SubExprs(e.left) \cup SubExprs(e.right)
      [] e.kind = "Grouped" -> SubExprs(e.expr)
      [] e.kind = "FunctionCall" -> UNION {SubExprs(e.args[i]) : i \in 1..Len(e.args)}
      [] e.kind = "FieldAccess" -> SubExprs(e.object)
      [] e.kind = "MethodCall" ->
           SubExprs(e.object) \cup UNION {SubExprs(e.args[i]) : i \in 1..Len(e.args)}
      [] OTHER -> {}

RECURSIVE StmtExprs(_)
StmtExprs(stmt) ==
    LET Body(b) == UNION {StmtExprs(b[i]) : i \in 1..Len(b)}
    IN  CASE stmt.kind = "Expression" -> SubExprs(stmt.expr)
          [] stmt.kind = "Assignment" -> SubExprs(stmt.value)
          [] stmt.kind \in {"FunctionDef", "MethodDef"} -> Body(stmt.body)
          [] stmt.kind = "While" -> SubExprs(stmt.condition) \cup Body(stmt.body)
          [] stmt.kind = "If" ->
               SubExprs(stmt.condition) \cup Body(stmt.then_branch)
               \cup UNION {SubExprs(stmt.elif_branches[i][1])
                           \cup Body(stmt.elif_branches[i][2]) :
                           i \in 1..Len(stmt.elif_branches)}
               \cup Body(stmt.else_branch.body)
          [] OTHER -> {}

ProgramExprs(program) ==
    UNION {StmtExprs(program.statements[i]) : i \in 1..Len(program.statements)}

Count(ch, text) == Cardinality({i \in 1..Len(text) : text[i] = ch})

\* Built from integers, identifiers, binary operators and parentheses only.
IsArithmetic(e) ==
    \A x \in SubExprs(e) : x.kind \in {"Integer", "Identifier", "BinaryOp", "Grouped"}

IsConversion(e) ==
    /\ e.kind = "FunctionCall"
    /\ Len(e.args) = 1
    /\ e.name \in {ToIntName, ToFloatName, ToStringName}

\* Arithmetic, and calls of functions other than the one-argument conversions.
IsPlain(e) ==
    \A x \in SubExprs(e) :
        /\ x.kind \in {"Integer", "Identifier", "BinaryOp", "Grouped", "FunctionCall"}
        /\ ~IsConversion(x)

\* 1-based line and column of the character at 0-based index i of text.
LineOf(text, i) == 1 + Cardinality({k \in 1..i : text[k] = "\n"})

ColumnOf(text, i) ==
    LET breaks == {k \in 1..i : text[k] = "\n"}
        last == IF breaks = {} THEN 0 ELSE CHOOSE k \in breaks : \A j \in breaks : j <= k
    IN  i - last + 1

\* Index of the first character at or after index `from` that is not a
\* blank, tab or carriage return; Len(text) when there is none.
TokenStart(text, from) ==
    LET stops == {i \in from..Len(text) :
                     i = Len(text) \/ text[i + 1] \notin {" ", "\t", "\r"}}
    IN  CHOOSE i \in stops : \A j \in stops : i <= j

TokenStartChars ==
    DigitSet \cup LowerSet \cup UpperSet
    \cup {"_", "'", "+", "-", "*", "/", "=", "<", ">", "(", ")", "{", "}", ",", "\n"}

\* The character at index i starts no token.
StartsNoToken(text, i) ==
    \/ text[i + 1] \notin TokenStartChars \cup {"!"}
    \/ text[i + 1] = "!" /\ (i + 1 >= Len(text) \/ text[i + 2] # "=")

\* next_token has been called at least once.
Called == lastTok # NoToken \/ lexState = "panic"

(***************************************************************************)
(* Properties                                                              *)
(***************************************************************************)

\* C1: in an unparenthesised `a op1 b op2 c` whose op2 belongs to a strictly
\* higher tier than op1, the parser returns BinaryOp(a, op1, BinaryOp(b, op2, c)).
HigherTierBindsTighter ==
    (Parsed /\ IsChain(tokens) /\ Tier(ChainOp(tokens, 4)) > Tier(ChainOp(tokens, 2)))
        => /\ parsed.ok
           /\ parsed.val = Program(<<ExpressionStmt(RightNested(tokens))>>)

HigherTierWitness ==
    /\ Parsed /\ IsChain(tokens)
    /\ ChainOp(tokens, 2) = "Add" /\ ChainOp(tokens, 4) = "Multiply"
    /\ parsed.ok

\* C2: a chain `a op b op' c` of one tier parses left-nested, and in every
\* AST the parser returns the right child of a BinaryOp is never a BinaryOp
\* of the same or a lower tier.
SameTierAssociatesLeft ==
    /\ (Parsed /\ IsChain(tokens) /\ Tier(ChainOp(tokens, 4)) = Tier(ChainOp(tokens, 2)))
          => /\ parsed.ok
             /\ parsed.val = Program(<<ExpressionStmt(LeftNested(tokens))>>)
    /\ (Parsed /\ parsed.ok)
          => \A e \in ProgramExprs(parsed.val) :
                (e.kind = "BinaryOp" /\ e.right.kind = "BinaryOp")
                    => Tier(e.right.op) > Tier(e.op)

SameTierWitness ==
    /\ Parsed /\ IsChain(tokens)
    /\ ChainOp(tokens, 2) = "Add" /\ ChainOp(tokens, 4) = "Subtract"
    /\ parsed.ok

\* C3 as stated: tokenizing and parsing the generated text of any accepted
\* expression gives back the AST it was generated from.
RoundTripAnyExpression ==
    stage = "reparsed" => (~reparsed.panic /\ reparsed.ok /\ reparsed.expr = expr)

\* C3 amended: the round trip holds for every accepted expression built from
\* integer literals, identifiers, binary operators, parentheses and calls of
\* functions other than one-argument to_int, to_float and to_string.
RoundTripPlainExpression ==
    (stage = "reparsed" /\ IsPlain(expr))
        => (~reparsed.panic /\ reparsed.ok /\ reparsed.expr = expr)

RoundTripWitness ==
    /\ stage = "reparsed" /\ IsPlain(expr)
    /\ expr.kind = "BinaryOp" /\ expr.left.kind = "Grouped"
    /\ expr.left.expr.kind = "BinaryOp"
    /\ reparsed.ok

\* The text of a direct operand of a BinaryOp: in parentheses exactly when
\* the operand is a BinaryOp of a strictly lower tier than the parent, or of
\* the parent's tier while being the right operand.
OperandText(child, parentOp, isRight) ==
    IF /\ child.kind = "BinaryOp"
       /\ \/ Tier(child.op) < Tier(parentOp)
          \/ Tier(child.op) = Tier(parentOp) /\ isRight
    THEN <<"(">> \o generate_expression(child) \o <<")">>
    ELSE generate_expression(child)

\* C4: a BinaryOp operand of a BinaryOp is wrapped in parentheses if and only
\* if its precedence is strictly lower than the parent's, or equal while it
\* is the right operand; a BinaryOp without a BinaryOp parent is never wrapped.
ParenthesesIffNeeded ==
    Generated =>
        /\ expr.kind = "BinaryOp" =>
               generated = OperandText(expr.left, expr.op, FALSE)
                           \o <<" ">> \o op_symbol(expr.op) \o <<" ">>
                           \o OperandText(expr.right, expr.op, TRUE)
        /\ (expr.kind = "FunctionCall" /\ expr.name = <<"f">> /\ Len(expr.args) = 1) =>
               generated = <<"f", "(">> \o generate_expression(expr.args[1]) \o <<")">>

ParenthesesWitness ==
    /\ stage = "generated"
    /\ expr.kind = "BinaryOp"
    /\ expr.left.kind = "BinaryOp" /\ Tier(expr.left.op) = Tier(expr.op)
    /\ expr.right.kind = "BinaryOp" /\ Tier(expr.right.op) = Tier(expr.op)
    /\ Count("(", generated) = 1

\* C5: a Grouped node emits exactly one pair of parentheses around its inner
\* expression, and the text generated for a parsed expression of integers,
\* identifiers, binary operators and parentheses has exactly as many
\* parenthesis pairs as the source.
OnlySourceParentheses ==
    /\ (Generated /\ expr.kind = "Grouped")
          => generated = <<"(">> \o generate_expression(expr.expr) \o <<")">>
    /\ (Generated /\ parsed.ok /\ Len(parsed.val.statements) = 1 /\ IsArithmetic(expr))
          => /\ Count("(", generated) = Count("(", input)
             /\ Count(")", generated) = Count(")", input)

OnlySourceParenthesesWitness ==
    /\ stage = "generated" /\ parsed.ok /\ Len(parsed.val.statements) = 1
    /\ expr.kind = "BinaryOp" /\ expr.op = "Multiply"
    /\ expr.left.kind = "Grouped" /\ expr.left.expr.kind = "BinaryOp"
    /\ expr.left.expr.op = "Add"
    /\ Count("(", generated) = 1

\* C6: the vector tokenize returns holds exactly one Eof token, as its last
\* element (and no Eof is pushed while the loop is still running).
EofTerminated ==
    /\ lexState = "done" =>
          /\ tokens # <<>>
          /\ tokens[Len(tokens)].token_type = TT("Eof")
          /\ \A i \in 1..(Len(tokens) - 1) : tokens[i].token_type # TT("Eof")
    /\ lexState = "scanning" =>
          \A i \in 1..Len(tokens) : tokens[i].token_type # TT("Eof")

EofTerminatedWitness ==
    /\ stage = "lex" /\ lexState = "done" /\ Len(tokens) >= 3
    /\ \E i \in 1..Len(tokens) : tokens[i].token_type.kind = "Newline"

\* C7: once next_token has returned Eof, every later call returns Eof with
\* the same line and column, does not fail and leaves the position unchanged.
EofIsIdempotent ==
    [][(stage = "lex" /\ lastTok.token_type = TT("Eof"))
          => (lastTok' = lastTok /\ position' = position /\ lexState' # "panic")]_vars

EofIsIdempotentWitness ==
    /\ stage = "lex" /\ eofCalls >= 2
    /\ lastTok.token_type = TT("Eof")
    /\ position > 0

\* C8: the tokenizer's line and column are those of the scan position, and
\* every token carries the 1-based line and column of its first character.
PositionsTracked ==
    stage = "lex" =>
        /\ line = LineOf(input, position)
        /\ column = ColumnOf(input, position)
        /\ lastTok # NoToken =>
              LET at == TokenStart(input, started.position)
              IN  /\ lastTok.line = LineOf(input, at)
                  /\ lastTok.column = ColumnOf(input, at)

PositionsTrackedWitness ==
    /\ stage = "lex" /\ lastTok # NoToken
    /\ lastTok.token_type.kind \in {"Integer", "Identifier"}
    /\ lastTok.line = 2 /\ lastTok.column = 2

\* C9: when a next_token call finds, at the start of a token, a character
\* that starts no token, the scan panics naming that character and the line
\* and column where it stands, and no token vector is returned.
UnexpectedCharacterAborts ==
    (stage = "lex" /\ Called) =>
        LET at == TokenStart(input, started.position)
        IN  (at < Len(input) /\ StartsNoToken(input, at))
               => /\ lexState = "panic"
                  /\ tokens = <<>>
                  /\ panicInfo = [ch |-> input[at + 1],
                                  line |-> LineOf(input, at),
                                  column |-> ColumnOf(input, at)]

UnexpectedCharacterWitness ==
    /\ stage = "lex" /\ lexState = "panic"
    /\ panicInfo.ch = "!" /\ panicInfo.line = 2 /\ panicInfo.column = 2

\* The tokens of an unterminated group: '(' and a complete expression that
\* ends where the input ends.
IsUnterminatedGroup(toks) ==
    /\ Len(toks) >= 2
    /\ toks[1].token_type.kind = "LeftParen"
    /\ LET r == parse_expression(toks, 1, 0)
       IN  r.ok /\ is_at_end(toks, r.pos)

\* C10 as stated: parsing the tokenizer's output for an unterminated group
\* fails with UnexpectedEof expecting ')'.
UnterminatedGroupIsUnexpectedEof ==
    (Parsed /\ IsUnterminatedGroup(tokens))
        => (~parsed.ok /\ parsed.err = UnexpectedEof("')'"))

\* C10 amended: it fails with UnexpectedToken expecting ')' whose found token
\* is the Eof token that ends the tokenizer's output.
UnterminatedGroupIsUnexpectedToken ==
    (Parsed /\ IsUnterminatedGroup(tokens))
        => /\ ~parsed.ok
           /\ parsed.err.kind = "UnexpectedToken"
           /\ parsed.err.expected = "')'"
           /\ parsed.err.found = tokens[Len(tokens)]
           /\ parsed.err.found.token_type = TT("Eof")

UnterminatedGroupWitness ==
    /\ stage = "parsed" /\ IsUnterminatedGroup(tokens)
    /\ parse_expression(tokens, 1, 0).val.kind = "BinaryOp"
    /\ ~parsed.ok

\* The word read by the latest next_token call, when it started on a letter
\* or an underscore: the characters from the token's start to the cursor.
WordStarted ==
    /\ stage = "lex" /\ Called /\ eofCalls = 0
    /\ TokenStart(input, started.position) < Len(input)
    /\ LET ch == input[TokenStart(input, started.position) + 1]
       IN  ch \in LowerSet \cup UpperSet \cup {"_"}

WordRead == SubSeq(input, TokenStart(input, started.position) + 1, position)

\* The keyword set the claim names, with the token of each keyword.
ClaimedKeywordToken(word) ==
    CASE word = <<"f", "n">> -> TT("Fn")
      [] word = <<"i", "f">> -> TT("If")
      [] word = <<"e", "l", "i", "f">> -> TT("Elif")
      [] word = <<"e", "l", "s", "e">> -> TT("Else")
      [] word = <<"w", "h", "i", "l", "e">> -> TT("While")
      [] word = <<"c", "l", "a", "s", "s">> -> TT("Class")
      [] word = <<"s", "e", "l", "f">> -> TT("Self_")
      [] OTHER -> TIdentifier(word)

\* C11: a word is tokenized as the keyword token of fn, if, elif, else,
\* while, class (Class) or self (Self_) when it is one of them, and as an
\* Identifier holding the word otherwise.
KeywordsOfTheSeven ==
    WordStarted => /\ lexState # "panic"
                   /\ lastTok.token_type = ClaimedKeywordToken(WordRead)

\* The input is a run of digits, a '.', and then the end or a non-digit.
DigitsThenDot(text) ==
    \E n \in 1..Len(text) - 1 :
        /\ \A i \in 1..n : text[i] \in DigitSet
        /\ text[n + 1] = "."
        /\ (n + 1 = Len(text) \/ text[n + 2] \notin DigitSet)

\* The tokenizer has finished with the input, by Eof or by a panic.
Finished == stage = "lex" /\ lexState \in {"done", "panic"}

\* C12: digits followed by '.' and a non-digit or the end give an Integer
\* token followed by a Dot token; `42.foo` gives Integer(42), Dot,
\* Identifier(foo), Eof and `42.` gives Integer(42), Dot, Eof.
IntegerThenDot ==
    /\ (Finished /\ DigitsThenDot(input))
          => /\ lexState = "done"
             /\ Len(tokens) >= 3
             /\ tokens[1].token_type.kind = "Integer"
             /\ tokens[2].token_type = TT("Dot")
    /\ (Finished /\ input = <<"4", "2", ".", "f", "o", "o">>)
          => [i \in 1..Len(tokens) |-> tokens[i].token_type]
                = <<TInteger(42), TT("Dot"), TIdentifier(<<"f", "o", "o">>), TT("Eof")>>
    /\ (Finished /\ input = <<"4", "2", ".">>)
          => [i \in 1..Len(tokens) |-> tokens[i].token_type]
                = <<TInteger(42), TT("Dot"), TT("Eof")>>

\* The kinds of the tokens of a vector, in order.
Kinds(toks) == [i \in 1..Len(toks) |-> toks[i].token_type.kind]

IsOperandToken(tok) == tok.token_type.kind \in {"Integer", "Identifier", "Self_"}

\* The primary expression a single operand token stands for.
OperandOf(tok) ==
    IF tok.token_type.kind = "Self_" THEN Identifier(SelfName) ELSE AtomOf(tok)

NameAt(toks, i) == toks[i].token_type.name

\* The result of parsing one expression statement e.
OneExpression(e, toks) == Ok(Program(<<ExpressionStmt(e)>>), Len(toks) - 1)

\* parse() has returned for the vector in `tokens`.
ParseReturned == stage = "parsed"

\* C13: `.name`, with or without an argument list, parses as a MethodCall on
\* the expression to its left, with empty args when no parentheses follow,
\* and no AST the parser returns contains a FieldAccess.
PostfixIsMethodCall ==
    /\ (ParseReturned /\ parsed.ok)
          => \A e \in ProgramExprs(parsed.val) : e.kind # "FieldAccess"
    /\ (ParseReturned /\ Len(tokens) >= 4 /\ IsOperandToken(tokens[1]))
          => LET k == Kinds(tokens)
                 rest == SubSeq(k, 2, Len(k))
                 obj == OperandOf(tokens[1])
             IN  /\ rest = <<"Dot", "Identifier", "Eof">>
                       => parsed = OneExpression(
                              MethodCall(obj, NameAt(tokens, 3), <<>>), tokens)
                 /\ rest = <<"Dot", "Identifier", "LeftParen", "RightParen", "Eof">>
                       => parsed = OneExpression(
                              MethodCall(obj, NameAt(tokens, 3), <<>>), tokens)
                 /\ rest = <<"Dot", "Identifier", "Dot", "Identifier", "Eof">>
                       => parsed = OneExpression(
                              MethodCall(MethodCall(obj, NameAt(tokens, 3), <<>>),
                                         NameAt(tokens, 5), <<>>), tokens)
                 /\ (rest[1] = "Plus" /\ IsOperandToken(tokens[3])
                     /\ SubSeq(k, 4, Len(k)) = <<"Dot", "Identifier", "Eof">>)
                       => parsed = OneExpression(
                              BinaryOp(obj, "Add",
                                  MethodCall(OperandOf(tokens[3]),
                                             NameAt(tokens, 5), <<>>)), tokens)
                 /\ rest = <<"Dot", "Identifier", "LeftParen", "Integer", "Comma",
                             "Identifier", "RightParen", "Eof">>
                       => parsed = OneExpression(
                              MethodCall(obj, NameAt(tokens, 3),
                                         <<AtomOf(tokens[5]), AtomOf(tokens[7])>>),
                              tokens)

PostfixWitness ==
    /\ ParseReturned /\ parsed.ok
    /\ Kinds(tokens) = <<"Identifier", "Dot", "Identifier", "Eof">>
    /\ \E e \in ProgramExprs(parsed.val) : e.kind = "MethodCall" /\ e.args = <<>>

\* The indexes (0-based) at which parse() starts its statements.
RECURSIVE StatementStarts(_, _)
StatementStarts(toks, pos) ==
    IF is_at_end(toks, pos) THEN <<>>
    ELSE LET r == parse_statement(toks, pos)
         IN  IF ~r.ok THEN <<pos>>
             ELSE <<pos>> \o StatementStarts(toks, skip_newlines(toks, r.pos))

\* The kinds of the k tokens from index pos (0-based) on.
KindsFrom(toks, pos, k) ==
    IF pos + k <= Len(toks) THEN Kinds(SubSeq(toks, pos + 1, pos + k)) ELSE <<>>

BeginsPlainAssignment(toks, pos) == KindsFrom(toks, pos, 2) = <<"Identifier", "Equals">>

BeginsSelfAssignment(toks, pos) ==
    KindsFrom(toks, pos, 4) = <<"Self_", "Dot", "Identifier", "Equals">>

\* C14: a statement is an Assignment exactly when it begins with an
\* identifier and `=` (named by the identifier) or with self, `.`, an
\* identifier and `=` (named "self.<field>"); any other statement that
\* begins with an identifier or with self is an expression statement.
AssignmentIffEquals ==
    (ParseReturned /\ parsed.ok)
        => LET stmts == parsed.val.statements
               starts == StatementStarts(tokens, skip_newlines(tokens, 0))
           IN  /\ Len(starts) = Len(stmts)
               /\ \A i \in 1..Len(stmts) :
                     /\ stmts[i].kind = "Assignment"
                           <=> (BeginsPlainAssignment(tokens, starts[i])
                                \/ BeginsSelfAssignment(tokens, starts[i]))
                     /\ BeginsPlainAssignment(tokens, starts[i])
                           => stmts[i].name = NameAt(tokens, starts[i] + 1)
                     /\ BeginsSelfAssignment(tokens, starts[i])
                           => stmts[i].name
                                = <<"s", "e", "l", "f", ".">> \o NameAt(tokens, starts[i] + 3)
                     /\ (tokens[starts[i] + 1].token_type.kind \in {"Identifier", "Self_"}
                         /\ stmts[i].kind # "Assignment")
                           => stmts[i].kind = "Expression"

AssignmentWitness ==
    /\ ParseReturned /\ parsed.ok
    /\ Kinds(tokens) = <<"Self_", "Dot", "Identifier", "Equals", "Integer", "Eof">>
    /\ parsed.val.statements
         = <<Assignment(<<"s", "e", "l", "f", ".", "a">>, Integer(1))>>

\* No token at all, or Newline tokens (none, one or more) followed by Eof.
IsBlankVector(toks) ==
    \/ toks = <<>>
    \/ /\ toks[Len(toks)].token_type.kind = "Eof"
       /\ \A i \in 1..Len(toks) - 1 : toks[i].token_type.kind = "Newline"

\* C15: parse on an empty vector, on Eof alone or on Newline tokens followed
\* by Eof returns Ok with a Program of zero statements.
BlankGivesEmptyProgram ==
    (ParseReturned /\ IsBlankVector(tokens))
        => parsed.ok /\ parsed.val = Program(<<>>) /\ parsed.val.statements = <<>>

BlankWitness ==
    /\ ParseReturned /\ tokens = <<>>
    /\ parsed.ok /\ Len(parsed.val.statements) = 0

(***************************************************************************)
(* Properties of generate_program                                          *)
(***************************************************************************)
\* generate_program has returned once / twice.
Coded == stage \in {"coded", "recoded"}

Recoded == stage = "recoded"

\* C16: generate_program is deterministic: two calls on the same Program
\* return identical strings, the order of the class blocks and the order of
\* the fields of each struct included.
SameProgramSameCode == Recoded => code = again

\* The class names of the statements, each once, in order of first appearance.
RECURSIVE first_appearance(_, _)
first_appearance(stmts, seen) ==
    IF stmts = <<>> THEN seen
    ELSE LET stmt == Head(stmts)
             name == IF stmt.kind = "ClassDef" THEN <<stmt.name>>
                     ELSE IF stmt.kind = "MethodDef" THEN <<stmt.class_name>>
                     ELSE <<>>
             IsName(c) == <<c>> = name
         IN  first_appearance(Tail(stmts),
                 IF name = <<>> \/ SelectSeq(seen, IsName) # <<>> THEN seen
                 ELSE seen \o name)

\* The general form with the class blocks in order of first appearance, for
\* some order of the fields of each struct.
InProgramOrder(text) ==
    \E orders \in HashOrders(prog) :
        /\ orders.classes = first_appearance(prog.statements, <<>>)
        /\ text = classes_code(prog, orders.classes, orders.fields)
                  \o functions_code(prog.statements)
                  \o Lit.main_open \o main_body_code(prog.statements)
                  \o Lit.close_fn

\* C17: in the general case the class blocks come first, in order of first
\* appearance and with the methods of a class in program order, then every
\* FunctionDef in program order, then one `fn main` holding the remaining
\* statements in program order.
GroupsKeepProgramOrder ==
    Coded /\ ~is_single_expression(prog) => InProgramOrder(code)

ResultName == <<"r", "e", "s", "u", "l", "t">>

\* fn main() {
\*     let result = <e>;
\*     println!("{}", result);
\* }
SingleExpressionText(e) ==
    Lit.main_open
    \o Lit.indent4 \o Lit.let \o ResultName \o Lit.equals
       \o generate_expression(e) \o <<";", "\n">>
    \o Lit.indent4 \o Lit.println_open \o <<"{", "}">> \o Lit.println_values
       \o ResultName \o Lit.println_end \o <<"\n">>
    \o Lit.close_fn

\* The general partitioned form: class blocks, functions, then one fn main.
GeneralForm(text) ==
    \E orders \in HashOrders(prog) :
        text = classes_code(prog, orders.classes, orders.fields)
               \o functions_code(prog.statements)
               \o Lit.main_open \o main_body_code(prog.statements)
               \o Lit.close_fn

\* The Program is one Expression statement whose expression is no FunctionCall.
OneBareExpression ==
    /\ Len(prog.statements) = 1
    /\ prog.statements[1].kind = "Expression"
    /\ prog.statements[1].expr.kind # "FunctionCall"

\* C18: a Program of exactly one Expression statement that is not a
\* FunctionCall is generated as `fn main() {`, the binding of the expression
\* to `result`, the println! of `result` and `}`; every other Program is
\* generated in the general partitioned form.
SingleExpressionIsWrapped ==
    Coded => IF OneBareExpression
             THEN code = SingleExpressionText(prog.statements[1].expr)
             ELSE GeneralForm(code)

\* generate_program has wrapped the one statement `1 + 2`.
SingleExpressionWitness ==
    /\ Coded
    /\ prog = Program(<<ExpressionStmt(BinaryOp(Integer(1), "Add", Integer(2)))>>)
    /\ code = SingleExpressionText(prog.statements[1].expr)

\* The concatenation of a sequence of texts.
RECURSIVE Concat(_)
Concat(texts) == IF texts = <<>> THEN <<>> ELSE Head(texts) \o Concat(Tail(texts))

\* sub occurs in text.
Contains(text, sub) ==
    \E k \in 0..(Len(text) - Len(sub)) : SubSeq(text, k + 1, k + Len(sub)) = sub

\* The FunctionDef statements of the Program.
FunctionDefs == {i \in 1..Len(prog.statements) : prog.statements[i].kind = "FunctionDef"}

\* The line the claim gives statement i of a free function's body: the last
\* statement, if it is an Expression, as the bare expression; every other
\* statement as an ordinary statement.
ClaimedBodyLine(body, i) ==
    Lit.indent4
    \o (IF i = Len(body) /\ body[i].kind = "Expression"
        THEN generate_expression(body[i].expr)
        ELSE generate_statement(body[i]))
    \o <<"\n">>

\* The text the claim gives a free function: header, one line per statement
\* of the body (none for an empty body), closing brace.
ClaimedFunction(f) ==
    Lit.fn \o f.name \o <<"(">> \o params_with_types(f.params) \o Lit.returns_i64
    \o Concat([i \in 1..Len(f.body) |-> ClaimedBodyLine(f.body, i)])
    \o Lit.close_fn

\* The last statement of the body is written without a trailing `;` exactly
\* if it is an Expression statement.
BareIffExpression(f) ==
    f.body # <<>> =>
        LET last == ClaimedBodyLine(f.body, Len(f.body))
            ordinary == Lit.indent4 \o generate_statement(f.body[Len(f.body)])
                        \o <<"\n">>
        IN  IF f.body[Len(f.body)].kind = "Expression"
            THEN last[Len(last) - 1] # ";" /\ last # ordinary
            ELSE last = ordinary

\* C19: in an emitted free function the last statement of the body is
\* written as a bare expression without a trailing `;` if and only if it is
\* an Expression statement; every earlier statement is written as an
\* ordinary statement, and an empty body emits no statement line.
ImplicitReturnOfFunctions ==
    Coded => \A i \in FunctionDefs :
                 /\ Contains(code, ClaimedFunction(prog.statements[i]))
                 /\ BareIffExpression(prog.statements[i])
                 /\ prog.statements[i].body = <<>> =>
                        Contains(code, Lit.returns_i64 \o Lit.close_fn)

\* A function whose body ends in an Expression statement after an earlier
\* Expression statement has been generated.
ImplicitReturnWitness ==
    /\ Coded
    /\ Len(prog.statements) = 1
    /\ prog.statements[1].kind = "FunctionDef"
    /\ Len(prog.statements[1].body) = 2
    /\ prog.statements[1].body[1].kind = "Expression"
    /\ prog.statements[1].body[2].kind = "Expression"
    /\ Contains(code, ClaimedFunction(prog.statements[1]))

\* name is one of the parameters.
IsParam(name, params) == \E i \in 1..Len(params) : params[i] = name

\* The expression with every bare identifier that is neither a parameter nor
\* `self` replaced by the field reference self.<name>.
RECURSIVE FieldsOfSelf(_, _)
FieldsOfSelf(e, params) ==
    CASE e.kind = "Identifier" ->
             IF IsParam(e.name, params) \/ e.name = Lit.self THEN e
             ELSE FieldAccess(Identifier(Lit.self), e.name)
      [] e.kind = "BinaryOp" ->
             BinaryOp(FieldsOfSelf(e.left, params), e.op, FieldsOfSelf(e.right, params))
      [] e.kind = "Grouped" -> Grouped(FieldsOfSelf(e.expr, params))
      [] e.kind = "FunctionCall" ->
             FunctionCall(e.name, [i \in 1..Len(e.args) |-> FieldsOfSelf(e.args[i], params)])
      [] e.kind = "FieldAccess" -> FieldAccess(FieldsOfSelf(e.object, params), e.field)
      [] e.kind = "MethodCall" ->
             MethodCall(FieldsOfSelf(e.object, params), e.method,
                        [i \in 1..Len(e.args) |-> FieldsOfSelf(e.args[i], params)])
      [] OTHER -> e

\* The statements of a method body the claim is read on: expression
\* statements that are no call, assignments to locals, loops over such.
RECURSIVE References(_)
References(stmt) ==
    CASE stmt.kind = "Expression" -> stmt.expr.kind # "FunctionCall"
      [] stmt.kind = "Assignment" -> ~is_self_field(stmt)
      [] stmt.kind = "While" -> \A i \in 1..Len(stmt.body) : References(stmt.body[i])
      [] OTHER -> FALSE

\* The statement with the identifiers of its expressions rewritten.
RECURSIVE StatementOfSelf(_, _)
StatementOfSelf(stmt, params) ==
    CASE stmt.kind = "Expression" -> ExpressionStmt(FieldsOfSelf(stmt.expr, params))
      [] stmt.kind = "Assignment" -> Assignment(stmt.name, FieldsOfSelf(stmt.value, params))
      [] stmt.kind = "While" ->
             WhileStmt(FieldsOfSelf(stmt.condition, params),
                       [i \in 1..Len(stmt.body) |-> StatementOfSelf(stmt.body[i], params)])
      [] OTHER -> stmt

\* The line the claim gives statement i of the body of a regular method.
ClaimedMethodLine(m, i) ==
    Lit.indent8
    \o (IF i = Len(m.body) /\ m.body[i].kind = "Expression"
        THEN generate_expression(FieldsOfSelf(m.body[i].expr, m.params))
        ELSE generate_statement(StatementOfSelf(m.body[i], m.params)))
    \o <<"\n">>

\* The methods of the Program other than `new`.
RegularMethods ==
    {i \in 1..Len(prog.statements) :
        /\ prog.statements[i].kind = "MethodDef"
        /\ prog.statements[i].method_name # Lit.new}

\* C20: in the body of a method other than `new` every bare identifier that
\* is not a parameter of the method is emitted as self.<name>, and every
\* reference to a parameter is emitted unchanged.
OnlyFieldsGetSelf ==
    Coded => \A k \in RegularMethods :
                 LET m == prog.statements[k]
                 IN  \A i \in 1..Len(m.body) :
                         References(m.body[i]) =>
                             Contains(code, <<"\n">> \o ClaimedMethodLine(m, i))

\* The classes of the Program.
Classes == class_names(prog)

\* The targets of the `self.<field> = value` assignments of a body, through
\* the bodies of if and while.
RECURSIVE AssignedFields(_)
AssignedFields(body) ==
    UNION {LET stmt == body[i]
           IN  CASE stmt.kind = "Assignment" /\ starts_with(stmt.name, Lit.self_dot) ->
                        {SubSeq(stmt.name, Len(Lit.self_dot) + 1, Len(stmt.name))}
                 [] stmt.kind = "While" -> AssignedFields(stmt.body)
                 [] stmt.kind = "If" ->
                        AssignedFields(stmt.then_branch)
                        \cup UNION {AssignedFields(stmt.elif_branches[k][2]) :
                                       k \in 1..Len(stmt.elif_branches)}
                        \cup AssignedFields(stmt.else_branch.body)
                 [] OTHER -> {} : i \in 1..Len(body)}

\* The fields a method reads as `self.<field>`, through the bodies of if
\* and while.
ReadFields(method) ==
    {e.field : e \in {x \in StmtExprs(method) :
                         x.kind = "FieldAccess" /\ x.object = Identifier(Lit.self)}}

\* The union, over the methods of the class, of the assigned and the read fields.
ClaimedFields(class_name) ==
    LET methods == methods_of(prog, class_name)
    IN  UNION {AssignedFields(methods[i].body) \cup ReadFields(methods[i]) :
                  i \in 1..Len(methods)}

\* The text declares struct class_name with one i64 field for every name of
\* fields, in some order, and no other field.
DeclaresStruct(text, class_name, fields) ==
    \E order \in IterationOrders(fields) :
        Contains(text, Lit.derive_struct \o class_name \o Lit.open_brace
                       \o Concat([i \in 1..Len(order) |->
                                     Lit.indent4 \o order[i] \o Lit.field_type])
                       \o Lit.close_block)

RECURSIVE Replace(_, _, _)
Replace(s, from, to) ==
    IF Len(s) < Len(from) THEN s
    ELSE IF SubSeq(s, 1, Len(from)) = from
    THEN to \o Replace(SubSeq(s, Len(from) + 1, Len(s)), from, to)
    ELSE <<Head(s)>> \o Replace(Tail(s), from, to)

\* The format with every %d and every %s replaced by {}.
ClaimedFormat(s) == Replace(Replace(s, <<"%", "d">>, <<"{", "}">>), <<"%", "s">>, <<"{", "}">>)

\* The println! the claim gives a call of print with these arguments.
ClaimedPrintln(args) ==
    IF args = <<>> THEN <<"p", "r", "i", "n", "t", "l", "n", "!", "(", ")", ";">>
    ELSE <<"p", "r", "i", "n", "t", "l", "n", "!", "(", "\"">>
         \o (IF args[1].kind = "String" THEN ClaimedFormat(args[1].value)
             ELSE <<"{", "}">>)
         \o <<"\"">>
         \o Concat([i \in 1..Len(args) - 1 |->
                       <<",", " ">> \o generate_expression(args[i + 1])])
         \o <<")", ";">>

\* The Program is one statement, a call of print.
OnlyPrint ==
    /\ Len(prog.statements) = 1
    /\ prog.statements[1].kind = "Expression"
    /\ prog.statements[1].expr.kind = "FunctionCall"
    /\ prog.statements[1].expr.name = Lit.print

\* C22: print() is emitted as `println!();`; print with a string literal
\* first as println! with that string as the format, every %d and every %s
\* replaced by {}, followed by the remaining arguments in order; print with
\* another first argument as println! with the format {} followed only by
\* the arguments after the first.
PrintLowersToPrintln ==
    Coded /\ OnlyPrint =>
        code = Lit.main_open \o Lit.indent4
               \o ClaimedPrintln(prog.statements[1].expr.args) \o <<"\n">>
               \o Lit.close_fn

\* print('%s%d', x, 1) has been generated.
PrintWitness ==
    /\ Coded /\ OnlyPrint
    /\ prog.statements[1].expr.args
         = <<StringLit(<<"%", "s", "%">>), Ident("x"), Integer(1)>>
    /\ Contains(code, <<"(", "\"", "{", "}", "%", "\"", ",", " ", "x", ",", " ", "1", ")", ";">>)

\* The statements of a body and of the bodies inside them.
RECURSIVE AllStatements(_)
AllStatements(stmts) ==
    UNION {LET stmt == stmts[i]
           IN  {stmt} \cup
               CASE stmt.kind \in {"FunctionDef", "MethodDef", "While"} ->
                        AllStatements(stmt.body)
                 [] stmt.kind = "If" ->
                        AllStatements(stmt.then_branch)
                        \cup UNION {AllStatements(stmt.elif_branches[k][2]) :
                                       k \in 1..Len(stmt.elif_branches)}
                        \cup AllStatements(stmt.else_branch.body)
                 [] OTHER -> {} : i \in 1..Len(stmts)}

\* The statements of the Program that call print.
PrintStatements ==
    {stmt \in AllStatements(prog.statements) :
        /\ stmt.kind = "Expression"
        /\ stmt.expr.kind = "FunctionCall"
        /\ stmt.expr.name = Lit.print}

\* C23: a statement that calls print is emitted as a println! invocation
\* wherever it stands - in the entry point, in an if or while branch, as any
\* statement of a free function, the last included, and in a method - and
\* never as a call of a function named print.
PrintIsAlwaysPrintln ==
    Coded /\ PrintStatements # {} =>
        /\ Contains(code, <<"p", "r", "i", "n", "t", "l", "n", "!", "(">>)
        /\ ~Contains(code, <<"p", "r", "i", "n", "t", "(">>)

\* The string literals of the Program.
StringLiterals == {e \in ProgramExprs(prog) : e.kind = "String"}

\* The string literals that are the first argument of a print statement.
FormatLiterals ==
    {stmt.expr.args[1] : stmt \in {s \in PrintStatements :
                                      /\ s.expr.args # <<>>
                                      /\ s.expr.args[1].kind = "String"}}

\* The text with a backslash before every double quote.
Escaped(s) == Concat([i \in 1..Len(s) |-> IF s[i] = "\"" THEN <<"\\", "\"">> ELSE <<s[i]>>])

\* Every double quote of the text at or after position from is preceded by a
\* backslash, up to the first one that is not.
RECURSIVE ClosingQuote(_, _)
ClosingQuote(text, from) ==
    IF from > Len(text) THEN 0
    ELSE IF text[from] = "\"" /\ (from = 1 \/ text[from - 1] # "\\") THEN from
    ELSE ClosingQuote(text, from + 1)

\* The contents of the double-quoted literals of the text, read as the target
\* language reads them: from a quote to the next quote without a backslash.
RECURSIVE QuotedLiterals(_, _)
QuotedLiterals(text, from) ==
    LET open == ClosingQuote(text, from)
        close == IF open = 0 THEN 0 ELSE ClosingQuote(text, open + 1)
    IN  IF open = 0 \/ close = 0 THEN {}
        ELSE {SubSeq(text, open + 1, close - 1)} \cup QuotedLiterals(text, close + 1)

\* C24: every string literal of the Program is emitted between double quotes
\* with each double quote inside it escaped by a backslash, the string
\* literal that is the format of a print included.
StringsAreEscaped ==
    Coded =>
        /\ \A e \in StringLiterals \ FormatLiterals :
               Escaped(e.value) \in QuotedLiterals(code, 1)
        /\ \A e \in FormatLiterals :
               Escaped(ClaimedFormat(e.value)) \in QuotedLiterals(code, 1)

(***************************************************************************)
(* Totality of the generator                                               *)
(***************************************************************************)
\* C25: code generation is total: generate_program, and generate_expression
\* inside it, return a string and never panic, whatever the Program - a
\* function or a method with an empty body, print without arguments and a
\* method whose statements are all `self.<field>` assignments included.
GenerationIsTotal ==
    /\ stage # "panicked"
    /\ ~program_panics(prog)
    /\ Coded => /\ Len(code) >= Len(Lit.main_open \o Lit.close_fn)
                /\ SubSeq(code, Len(code) - 1, Len(code)) = Lit.close_fn

\* A function with an empty body has been generated.
EmptyBodyWitness ==
    /\ Coded
    /\ prog = Program(<<FunctionDef(<<"f">>, <<<<"x">>>>, <<>>)>>)
    /\ code = Lit.fn \o <<"f", "(", "x">> \o Lit.param_type \o Lit.returns_i64
              \o Lit.close_fn \o <<"\n">> \o Lit.main_open \o Lit.close_fn

(***************************************************************************)
(* Properties of string literals                                           *)
(***************************************************************************)
\* The place of the first quote at or after i that is not the second
\* character of a backslash pair; 0 if there is none.
RECURSIVE ClosingAt(_, _)
ClosingAt(text, i) ==
    IF i > Len(text) THEN 0
    ELSE IF text[i] = "'" THEN i
    ELSE IF text[i] = "\\" THEN ClosingAt(text, i + 2)
    ELSE ClosingAt(text, i + 1)

\* What a backslash followed by c stands for.
Unescaped(c) ==
    CASE c = "n" -> <<"\n">>
      [] c = "t" -> <<"\t">>
      [] c = "r" -> <<"\r">>
      [] c = "\\" -> <<"\\">>
      [] c = "'" -> <<"'">>
      [] OTHER -> <<"\\", c>>

\* The decoded text of the characters between the quotes.
RECURSIVE Decoded(_)
Decoded(s) ==
    IF s = <<>> THEN <<>>
    ELSE IF s[1] = "\\" /\ Len(s) >= 2
    THEN Unescaped(s[2]) \o Decoded(SubSeq(s, 3, Len(s)))
    ELSE <<s[1]>> \o Decoded(Tail(s))

\* The first next_token call has returned, and the text opens a string.
FirstTokenRead ==
    /\ input # <<>> /\ input[1] = "'"
    /\ started = Cursor(0, 1, 1)
    /\ lastTok # NoToken

\* C26: inside a string literal \n, \t, \r, \\ and \' decode to newline,
\* tab, carriage return, backslash and quote, any other backslash pair is
\* kept as its two characters, and the String token holds the decoded text
\* between the quotes.
EscapesDecoded ==
    FirstTokenRead /\ ClosingAt(input, 2) # 0 =>
        /\ lastTok.token_type
             = TString(Decoded(SubSeq(input, 2, ClosingAt(input, 2) - 1)))
        /\ position = ClosingAt(input, 2)

\* The literal '\a' has been read as the two characters \ and a.
EscapesWitness ==
    /\ FirstTokenRead
    /\ input = <<"'", "\\", "a", "'">>
    /\ ClosingAt(input, 2) = 4
    /\ lastTok.token_type = TString(<<"\\", "a">>)

\* The text ends in a backslash that no character follows.
RECURSIVE EndsInLoneBackslash(_)
EndsInLoneBackslash(s) ==
    IF s = <<>> THEN FALSE
    ELSE IF s[1] = "\\" THEN Len(s) = 1 \/ EndsInLoneBackslash(SubSeq(s, 3, Len(s)))
    ELSE EndsInLoneBackslash(Tail(s))

\* The text opens a string literal that no quote closes.
Unterminated == input # <<>> /\ input[1] = "'" /\ ClosingAt(input, 2) = 0

Cursors == 0..Len(tokens)

\* parse is being called on the token vector; the vector is the same when
\* it has returned.
ParseCalled == stage = "tokens"

\* From p on the cursor is left at q: not before p, not past tokens.len().
Forward(p, q) == p <= q /\ q <= Len(tokens)

\* The vector cut behind the third token past the cursor.
ThreeAhead(toks, pos) == SubSeq(toks, 1, IF Len(toks) < pos + 4 THEN Len(toks) ELSE pos + 4)

\* C27: throughout parse the cursor never decreases and never exceeds
\* tokens.len(), whichever parsing function moves it and from wherever; the
\* lookahead of parse_statement reads at most three tokens past the cursor.
CursorOnlyMovesForward ==
    /\ ParseCalled => \A p \in Cursors :
           /\ Forward(p, Parser_advance(tokens, p))
           /\ Forward(p, skip_newlines(tokens, p))
           /\ \A r \in {parse_primary(tokens, p)} : Forward(p, r.pos)
           /\ \A r \in {parse_expression(tokens, p, 0)} : Forward(p, r.pos)
           /\ \A r \in {parse_statement(tokens, p)} : Forward(p, r.pos)
           /\ is_assignment(tokens, p) = is_assignment(ThreeAhead(tokens, p), p)
           /\ is_self_assignment(tokens, p) = is_self_assignment(ThreeAhead(tokens, p), p)
    /\ ParseReturned => Forward(0, parsed.pos)

\* parse has looked three tokens ahead for `self . a =` and has then moved
\* the cursor to the Eof token.
CursorWitness ==
    /\ ParseReturned /\ parsed.ok
    /\ Kinds(tokens) = <<"Self_", "Dot", "Identifier", "Equals", "Integer", "Eof">>
    /\ is_self_assignment(tokens, 0)
    /\ ~is_self_assignment(SubSeq(tokens, 1, 3), 0)
    /\ parsed.pos = 5


\* An expression standing for whatever the expression loop was entered with.
Probe == Identifier(<<"p">>)

\* A loop entered at p with the accumulator acc: it returns an error, or it
\* leaves at once with acc and the cursor untouched, or it has consumed.
LeavesOrConsumes(r, p, acc) == r.ok => (r.pos = p /\ r.val = acc) \/ r.pos > p

\* C28: parse returns Ok or Err on every token vector it is called on, for
\* at every cursor each loop makes progress: a primary, an expression (one
\* turn of the argument loop) and a statement (one turn of the top-level or
\* block loop) that succeed have consumed a token; the expression and elif loops leave
\* at once or consume; the parameter, argument and block loops that succeed
\* have consumed.
ParseTerminates ==
    /\ ParseCalled =>
        /\ \A p \in Cursors : \A r \in {parse_primary(tokens, p)} : r.ok => r.pos > p
        /\ \A p \in Cursors : \A r \in {parse_expression(tokens, p, 0)} : r.ok => r.pos > p
        /\ \A p \in Cursors : \A m \in 0..3 :
               \A r \in {parse_expression_loop(tokens, Probe, p, m)} :
                   LeavesOrConsumes(r, p, Probe)
        /\ \A p \in Cursors : \A r \in {parse_arguments_loop(tokens, p, <<>>)} :
               r.ok => r.pos > p
        /\ \A p \in Cursors : \A r \in {parse_params_loop(tokens, p, <<>>)} :
               r.ok => r.pos > p
        /\ \A p \in Cursors : \A r \in {parse_statement(tokens, p)} : r.ok => r.pos > p
        /\ \A p \in Cursors : \A r \in {parse_block_loop(tokens, p, <<>>)} :
               r.ok => r.pos > p
        /\ \A p \in Cursors : \A r \in {parse_elif_branches(tokens, p, <<>>)} :
               LeavesOrConsumes(r, p, <<>>)
        /\ \A r \in {parse(tokens)} : r.ok \in BOOLEAN /\ r.pos \in Cursors
    /\ ParseReturned => parsed.ok \in BOOLEAN /\ parsed.pos \in Cursors

\* parse has gone through the top-level, parameter, block, argument and
\* expression loops of `fn f(a, b) { a = g(1, 2) ; a + b }` and returned Ok.
LoopsWitness ==
    /\ ParseReturned /\ parsed.ok
    /\ Len(tokens) = 25
    /\ parsed.pos = 24
    /\ parsed.val.statements =
           <<FunctionDef(<<"f">>, <<<<"a">>, <<"b">>>>,
                <<Assignment(<<"a">>, FunctionCall(<<"g">>, <<Integer(1), Integer(2)>>)),
                  ExpressionStmt(BinaryOp(Identifier(<<"a">>), "Add",
                                          Identifier(<<"b">>)))>>)>>


\* The statement parsed at cursor p is a complete assignment or expression
\* statement, no Newline was consumed behind it, and the token it leaves the
\* cursor on is neither `}` nor the end of input.
FollowedOnSameLine(toks, p) ==
    \E r \in {parse_statement(toks, p)} :
        /\ r.ok
        /\ r.val.kind \in {"Assignment", "Expression"}
        /\ r.pos > p
        /\ toks[r.pos].token_type.kind # "Newline"
        /\ ~is_at_end(toks, r.pos)
        /\ kind_at(toks, r.pos) \notin {"Newline", "RightBrace"}

\* C29: when a token other than a Newline, a `}` or the end of input
\* directly follows a complete top-level assignment or expression statement,
\* parse returns an error.
SameLineStatementIsAnError ==
    ParseReturned
        => \A p \in Cursors :
               (/\ \E starts \in {StatementStarts(tokens, skip_newlines(tokens, 0))} :
                       \E i \in 1..Len(starts) : starts[i] = p
                /\ FollowedOnSameLine(tokens, p))
                   => ~parsed.ok

=============================================================================
